---- MODULE Spec2Model ----
(***************************************************************************)
(* Payment reconciliation of the treasury dashboard: the column parser,    *)
(* the period evaluator and the summary aggregator of the resident detail  *)
(* modal (app/components/ResidentDetailModal.vue) and of the monitoring    *)
(* page (app/pages/monitor-pembayaran.vue).                                *)
(*                                                                         *)
(* A JavaScript string is a sequence of one-character strings, so that     *)
(* trimming, regular-expression matching and number parsing are computed   *)
(* and not assumed.  A nullable value is a sequence of length 0 (null) or  *)
(* 1 (the value).                                                          *)
(***************************************************************************)
EXTENDS Integers, Sequences, FiniteSets, TLC

VARIABLES
    rawRow,           \* the spreadsheet row the fetch returned: <<header, value>> pairs
    resident,         \* ParsedResident built from it, Null until the fetch is handled
    now,              \* what `new Date()` gives: [year, month], month 1..12
    list,             \* what the list row of the monitoring page rendered, or Null
    modal,            \* what the resident detail modal rendered, or Null
    periodKey,        \* period evaluator: the period key handed to it
    startPembayaran,  \* period evaluator: the resident's start period string
    evaluated,        \* period evaluator: its result, or Null
    amount,           \* amount parser: the raw amount string
    isPaid,           \* amount parser: the paid flag computed for it, or Null
    sheetQuery,       \* GET /api/gsheet: the sheet parameter of the query
    spreadsheet,      \* GET /api/gsheet: what the Google Sheets API answers
    response,         \* GET /api/gsheet: the response sent, or Null
    residents,        \* resident list: the rows fetched
    parsedResidents,  \* resident list: the rows parsed
    searchQuery,      \* resident list: the search box
    selectedPerumahan, \* resident list: the perumahan select
    sortBy,           \* resident list: the sort select
    filteredResidents \* resident list: the residents shown, in order

sheetVars == <<sheetQuery, spreadsheet, response>>

listVars == <<residents, parsedResidents, searchQuery, selectedPerumahan, sortBy,
              filteredResidents>>

vars == <<rawRow, resident, now, list, modal,
          periodKey, startPembayaran, evaluated, amount, isPaid, sheetVars, listVars>>

Null == <<>>
Some(x) == <<x>>

---------------------------------------------------------------------------
(* Bounds of the model *)

\* most payment columns in a generated spreadsheet row
MaxCols == 2
\* longest amount string the amount parser is run on
MaxLen == 3
\* largest ordinal of a generated period key (13 and up are special entries)
MaxOrdinal == 14

---------------------------------------------------------------------------
(* JavaScript strings *)

Digits == <<"0", "1", "2", "3", "4", "5", "6", "7", "8", "9">>

\* \d
IsDigit(c) == \E i \in 1..10 : Digits[i] = c

DigitVal(c) == (CHOOSE i \in 1..10 : Digits[i] = c) - 1

\* \s, and what String.prototype.trim removes
IsSpace(c) == c = " "

Letters ==
    {"A", "B", "C", "D", "E", "F", "G", "H", "I", "J", "K", "L", "M",
     "N", "O", "P", "Q", "R", "S", "T", "U", "V", "W", "X", "Y", "Z",
     "a", "b", "c", "d", "e", "f", "g", "h", "i", "j", "k", "l", "m",
     "n", "o", "p", "q", "r", "s", "t", "u", "v", "w", "x", "y", "z"}

\* \w
IsWord(c) == c \in Letters \/ IsDigit(c) \/ c = "_"

AllDigits(s) == \A i \in 1..Len(s) : IsDigit(s[i])

\* parseInt of a string of decimal digits
RECURSIVE parseInt(_)
parseInt(s) ==
    IF Len(s) = 0 THEN 0
    ELSE 10 * parseInt(SubSeq(s, 1, Len(s) - 1)) + DigitVal(s[Len(s)])

RECURSIVE trimStart(_)
trimStart(s) ==
    IF Len(s) > 0 /\ IsSpace(s[1]) THEN trimStart(Tail(s)) ELSE s

RECURSIVE trimEnd(_)
trimEnd(s) ==
    IF Len(s) > 0 /\ IsSpace(s[Len(s)]) THEN trimEnd(SubSeq(s, 1, Len(s) - 1)) ELSE s

\* String.prototype.trim
trim(s) == trimEnd(trimStart(s))

\* String.prototype.includes
includes(s, sub) ==
    \E i \in 1..(Len(s) - Len(sub) + 1) : SubSeq(s, i, i + Len(sub) - 1) = sub

\* String.prototype.endsWith
endsWith(s, suffix) ==
    /\ Len(s) >= Len(suffix)
    /\ SubSeq(s, Len(s) - Len(suffix) + 1, Len(s)) = suffix

Slash == <<"/">>

\* the decimal numeral of a natural number (how the spreadsheet writes one)
RECURSIVE ToDigits(_)
ToDigits(n) ==
    IF n < 10 THEN <<Digits[n + 1]>>
    ELSE ToDigits(n \div 10) \o <<Digits[(n % 10) + 1]>>

---------------------------------------------------------------------------
(* Period evaluator, resident detail modal *)

\* /^(\d{4})\/(\d{1,2})$/
MatchStartPeriod(s) ==
    /\ Len(s) \in {6, 7}
    /\ AllDigits(SubSeq(s, 1, 4))
    /\ s[5] = "/"
    /\ AllDigits(SubSeq(s, 6, Len(s)))

\* /^(\d{4})\/(\d+)$/
MatchPeriodKey(s) ==
    /\ Len(s) >= 6
    /\ AllDigits(SubSeq(s, 1, 4))
    /\ s[5] = "/"
    /\ AllDigits(SubSeq(s, 6, Len(s)))

\* The mutant of parseStartPeriod: "-" is taken for the separator as well.
parseStartPeriod_AnySeparator(sp) ==
    IF Len(sp) = 0 \/ Len(trim(sp)) = 0 THEN Null
    ELSE LET t == trim(sp)
         IN  IF ~( /\ Len(t) \in {6, 7}
                   /\ AllDigits(SubSeq(t, 1, 4))
                   /\ t[5] \in {"/", "-"}
                   /\ AllDigits(SubSeq(t, 6, Len(t))) )
             THEN Null
             ELSE Some([year |-> parseInt(SubSeq(t, 1, 4)),
                        month |-> parseInt(SubSeq(t, 6, Len(t)))])

parseStartPeriod(sp) ==
    IF Len(sp) = 0 \/ Len(trim(sp)) = 0 THEN Null
    ELSE IF ~MatchStartPeriod(trim(sp)) THEN Null
    ELSE LET t == trim(sp)
         IN  Some([year |-> parseInt(SubSeq(t, 1, 4)),
                   month |-> parseInt(SubSeq(t, 6, Len(t)))])

\* The mutants of shouldCountPayment: the start month compared strictly, the
\* future check of monthly entries dropped, the start period ignored, and the
\* start month consulted for special entries.
shouldCountPayment_StrictStart(paymentKey, startPeriod, currentDate) ==
    IF ~MatchPeriodKey(paymentKey) THEN FALSE
    ELSE LET paymentYear == parseInt(SubSeq(paymentKey, 1, 4))
             paymentMonth == parseInt(SubSeq(paymentKey, 6, Len(paymentKey)))
         IN  IF paymentMonth > 12
             THEN IF paymentYear > currentDate.year THEN FALSE
                  ELSE IF startPeriod = Null THEN paymentYear <= currentDate.year
                  ELSE paymentYear >= startPeriod[1].year
             ELSE IF paymentYear > currentDate.year THEN FALSE
             ELSE IF paymentYear = currentDate.year /\ paymentMonth > currentDate.month
                  THEN FALSE
             ELSE IF startPeriod = Null THEN TRUE
             ELSE IF paymentYear > startPeriod[1].year THEN TRUE
             ELSE IF paymentYear < startPeriod[1].year THEN FALSE
             ELSE paymentMonth > startPeriod[1].month

shouldCountPayment_NoFutureCheck(paymentKey, startPeriod, currentDate) ==
    IF ~MatchPeriodKey(paymentKey) THEN FALSE
    ELSE LET paymentYear == parseInt(SubSeq(paymentKey, 1, 4))
             paymentMonth == parseInt(SubSeq(paymentKey, 6, Len(paymentKey)))
         IN  IF paymentMonth > 12
             THEN IF paymentYear > currentDate.year THEN FALSE
                  ELSE IF startPeriod = Null THEN paymentYear <= currentDate.year
                  ELSE paymentYear >= startPeriod[1].year
             ELSE IF startPeriod = Null THEN TRUE
             ELSE IF paymentYear > startPeriod[1].year THEN TRUE
             ELSE IF paymentYear < startPeriod[1].year THEN FALSE
             ELSE paymentMonth >= startPeriod[1].month

shouldCountPayment_IgnoreStart(paymentKey, startPeriod, currentDate) ==
    IF ~MatchPeriodKey(paymentKey) THEN FALSE
    ELSE LET paymentYear == parseInt(SubSeq(paymentKey, 1, 4))
             paymentMonth == parseInt(SubSeq(paymentKey, 6, Len(paymentKey)))
         IN  IF paymentMonth > 12
             THEN paymentYear <= currentDate.year
             ELSE IF paymentYear > currentDate.year THEN FALSE
             ELSE IF paymentYear = currentDate.year /\ paymentMonth > currentDate.month
                  THEN FALSE
             ELSE TRUE

shouldCountPayment_SpecialByMonth(paymentKey, startPeriod, currentDate) ==
    IF ~MatchPeriodKey(paymentKey) THEN FALSE
    ELSE LET paymentYear == parseInt(SubSeq(paymentKey, 1, 4))
             paymentMonth == parseInt(SubSeq(paymentKey, 6, Len(paymentKey)))
         IN  IF paymentYear > currentDate.year THEN FALSE
             ELSE IF paymentYear = currentDate.year /\ paymentMonth > currentDate.month
                  THEN FALSE
             ELSE IF startPeriod = Null THEN TRUE
             ELSE IF paymentYear > startPeriod[1].year THEN TRUE
             ELSE IF paymentYear < startPeriod[1].year THEN FALSE
             ELSE paymentMonth >= startPeriod[1].month

\* currentDate is the `new Date()` the function reads
shouldCountPayment(paymentKey, startPeriod, currentDate) ==
    LET currentYear == currentDate.year
        currentMonthIndex == currentDate.month
    IN  IF ~MatchPeriodKey(paymentKey) THEN FALSE
        ELSE LET paymentYear == parseInt(SubSeq(paymentKey, 1, 4))
                 paymentMonth == parseInt(SubSeq(paymentKey, 6, Len(paymentKey)))
             IN  IF paymentMonth > 12
                 THEN IF paymentYear > currentYear THEN FALSE
                      ELSE IF startPeriod = Null THEN paymentYear <= currentYear
                      ELSE paymentYear >= startPeriod[1].year
                 ELSE IF paymentYear > currentYear THEN FALSE
                 ELSE IF paymentYear = currentYear /\ paymentMonth > currentMonthIndex
                      THEN FALSE
                 ELSE IF startPeriod = Null THEN TRUE
                 ELSE IF paymentYear > startPeriod[1].year THEN TRUE
                 ELSE IF paymentYear < startPeriod[1].year THEN FALSE
                 ELSE paymentMonth >= startPeriod[1].month

\* The mutant of isFuturePayment: special entries are not exempted.
isFuturePayment_NoSpecial(paymentKey, currentDate) ==
    IF ~MatchPeriodKey(paymentKey) THEN FALSE
    ELSE LET paymentYear == parseInt(SubSeq(paymentKey, 1, 4))
             paymentMonth == parseInt(SubSeq(paymentKey, 6, Len(paymentKey)))
         IN  IF paymentYear > currentDate.year THEN TRUE
             ELSE IF paymentYear = currentDate.year /\ paymentMonth > currentDate.month
                  THEN TRUE
             ELSE FALSE

isFuturePayment(paymentKey, currentDate) ==
    LET currentYear == currentDate.year
        currentMonthIndex == currentDate.month
    IN  IF ~MatchPeriodKey(paymentKey) THEN FALSE
        ELSE LET paymentYear == parseInt(SubSeq(paymentKey, 1, 4))
                 paymentMonth == parseInt(SubSeq(paymentKey, 6, Len(paymentKey)))
             IN  IF paymentMonth > 12 THEN FALSE
                 ELSE IF paymentYear > currentYear THEN TRUE
                 ELSE IF paymentYear = currentYear /\ paymentMonth > currentMonthIndex
                      THEN TRUE
                 ELSE FALSE

---------------------------------------------------------------------------
(* Period evaluator, monitoring page *)

monitor_parseStartPeriod(sp) ==
    IF Len(sp) = 0 \/ Len(trim(sp)) = 0 THEN Null
    ELSE IF ~MatchStartPeriod(trim(sp)) THEN Null
    ELSE LET t == trim(sp)
         IN  Some([year |-> parseInt(SubSeq(t, 1, 4)),
                   month |-> parseInt(SubSeq(t, 6, Len(t)))])

\* The mutant of monitor_shouldCountPayment: the start month compared strictly.
monitor_shouldCountPayment_StrictStart(paymentKey, startPeriod, currentDate) ==
    IF ~MatchPeriodKey(paymentKey) THEN FALSE
    ELSE LET paymentYear == parseInt(SubSeq(paymentKey, 1, 4))
             paymentMonth == parseInt(SubSeq(paymentKey, 6, Len(paymentKey)))
         IN  IF paymentMonth > 12
             THEN IF paymentYear > currentDate.year THEN FALSE
                  ELSE IF startPeriod = Null THEN paymentYear <= currentDate.year
                  ELSE paymentYear >= startPeriod[1].year
             ELSE IF paymentYear > currentDate.year THEN FALSE
             ELSE IF paymentYear = currentDate.year /\ paymentMonth > currentDate.month
                  THEN FALSE
             ELSE IF startPeriod = Null THEN TRUE
             ELSE IF paymentYear > startPeriod[1].year THEN TRUE
             ELSE IF paymentYear < startPeriod[1].year THEN FALSE
             ELSE paymentMonth > startPeriod[1].month

monitor_shouldCountPayment(paymentKey, startPeriod, currentDate) ==
    LET currentYear == currentDate.year
        currentMonthIndex == currentDate.month
    IN  IF ~MatchPeriodKey(paymentKey) THEN FALSE
        ELSE LET paymentYear == parseInt(SubSeq(paymentKey, 1, 4))
                 paymentMonth == parseInt(SubSeq(paymentKey, 6, Len(paymentKey)))
             IN  IF paymentMonth > 12
                 THEN IF paymentYear > currentYear THEN FALSE
                      ELSE IF startPeriod = Null THEN paymentYear <= currentYear
                      ELSE paymentYear >= startPeriod[1].year
                 ELSE IF paymentYear > currentYear THEN FALSE
                 ELSE IF paymentYear = currentYear /\ paymentMonth > currentMonthIndex
                      THEN FALSE
                 ELSE IF startPeriod = Null THEN TRUE
                 ELSE IF paymentYear > startPeriod[1].year THEN TRUE
                 ELSE IF paymentYear < startPeriod[1].year THEN FALSE
                 ELSE paymentMonth >= startPeriod[1].month

---------------------------------------------------------------------------
(* Amount parser *)

\* amount.replace(/[^\d.-]/g, "")
stripNonNumeric(s) == SelectSeq(s, LAMBDA c : IsDigit(c) \/ c = "." \/ c = "-")

\* the longest prefix of decimal digits
RECURSIVE DigitPrefix(_)
DigitPrefix(s) ==
    IF Len(s) > 0 /\ IsDigit(s[1]) THEN <<s[1]>> \o DigitPrefix(Tail(s)) ELSE <<>>

NaN == [nan |-> TRUE, neg |-> FALSE, mant |-> 0, scale |-> 0]

\* parseFloat: the longest prefix that is a decimal literal, after leading white
\* space; the number is (-1)^neg * mant / 10^scale.  Exponents and "Infinity"
\* are left out: their letters never reach parseFloat through stripNonNumeric.
parseFloat(str) ==
    LET s == trimStart(str)
        neg == Len(s) > 0 /\ s[1] = "-"
        body == IF Len(s) > 0 /\ s[1] \in {"-", "+"} THEN Tail(s) ELSE s
        intPart == DigitPrefix(body)
        rest == SubSeq(body, Len(intPart) + 1, Len(body))
        fracPart == IF Len(rest) > 0 /\ rest[1] = "." THEN DigitPrefix(Tail(rest)) ELSE <<>>
    IN  IF Len(intPart) = 0 /\ Len(fracPart) = 0 THEN NaN
        ELSE [nan |-> FALSE, neg |-> neg,
              mant |-> parseInt(intPart \o fracPart), scale |-> Len(fracPart)]

\* numericValue > 0
IsPositive(v) == ~v.nan /\ ~v.neg /\ v.mant > 0

\* A mutant of isValidPayment: the non-numeric characters are not stripped.
isValidPayment_NoStrip(amt) ==
    IF Len(amt) = 0 THEN FALSE
    ELSE LET cleanAmount == trim(amt)
         IN  IF Len(cleanAmount) = 0 \/ cleanAmount = <<"0">> \/ cleanAmount = <<"-">>
             THEN FALSE
             ELSE IsPositive(parseFloat(cleanAmount))

\* resident detail modal
isValidPayment(amt) ==
    IF Len(amt) = 0 THEN FALSE
    ELSE LET cleanAmount == trim(amt)
         IN  IF Len(cleanAmount) = 0 \/ cleanAmount = <<"0">> \/ cleanAmount = <<"-">>
             THEN FALSE
             ELSE LET numericValue == parseFloat(stripNonNumeric(cleanAmount))
                  IN  ~numericValue.nan /\ IsPositive(numericValue)

\* monitoring page (local to its getPaymentSummary)
monitor_isValidPayment(amt) ==
    IF Len(amt) = 0 THEN FALSE
    ELSE LET cleanAmount == trim(amt)
         IN  IF Len(cleanAmount) = 0 \/ cleanAmount = <<"0">> \/ cleanAmount = <<"-">>
             THEN FALSE
             ELSE LET numericValue == parseFloat(stripNonNumeric(cleanAmount))
                  IN  ~numericValue.nan /\ IsPositive(numericValue)

---------------------------------------------------------------------------
(* Column parser *)

No == <<"N", "o">>
NamaWarga == <<"N", "a", "m", "a", " ", "W", "a", "r", "g", "a">>
Perumahan == <<"P", "e", "r", "u", "m", "a", "h", "a", "n">>
NomorRumah == <<"N", "o", "m", "o", "r", " ", "R", "u", "m", "a", "h">>
StartPembayaran ==
    <<"S", "t", "a", "r", "t", " ", "P", "e", "m", "b", "a", "y", "a", "r", "a", "n">>

\* the basic info columns parseResidentData skips
IdentityColumns == {No, NamaWarga, Perumahan, NomorRumah, StartPembayaran}

\* row[header] || "": a row is a sequence of <<header, value>> pairs
Cell(row, header) ==
    IF \E i \in 1..Len(row) : row[i][1] = header
    THEN row[CHOOSE i \in 1..Len(row) : row[i][1] = header][2]
    ELSE <<>>

IsPaymentColumn(pair) == pair[1] \notin IdentityColumns

\* parseResidentData, for one row of rawData; payment keeps the columns in
\* spreadsheet order (the order of Object.entries).  id is not modelled.
parseResidentData(row) ==
    [name |-> Cell(row, NamaWarga),
     perumahan |-> Cell(row, Perumahan),
     nomor |-> Cell(row, NomorRumah),
     startPembayaran |-> Cell(row, StartPembayaran),
     payment |-> SelectSeq(row, IsPaymentColumn)]

JmlSuffix == <<"(", "j", "m", "l", ")">>
TglSuffix == <<"(", "t", "g", "l", ")">>
RapatRT == <<"R", "a", "p", "a", "t", " ", "R", "T">>

\* /^(.+)\s+\(jml\)$/ and /^(.+)\s+\((tgl|jml)\)$/ with the suffix given: .+ is
\* greedy, so \s+ is the one white space before the suffix
MatchColumn(columnKey, suffix) ==
    /\ Len(columnKey) >= Len(suffix) + 2
    /\ endsWith(columnKey, suffix)
    /\ IsSpace(columnKey[Len(columnKey) - Len(suffix)])

\* capture 1 of the match above
ColumnPaymentKey(columnKey, suffix) ==
    SubSeq(columnKey, 1, Len(columnKey) - Len(suffix) - 1)

\* The mutant of MatchPeriodPrefix: "-" is taken for the separator as well.
MatchPeriodPrefix_AnySeparator(s) ==
    /\ Len(s) >= 6
    /\ AllDigits(SubSeq(s, 1, 4))
    /\ s[5] \in {"/", "-"}
    /\ IsDigit(s[6])

\* /^(\d{4}\/\d+)/
MatchPeriodPrefix(s) ==
    /\ Len(s) >= 6
    /\ AllDigits(SubSeq(s, 1, 4))
    /\ s[5] = "/"
    /\ IsDigit(s[6])

\* capture 1 of the match above
PeriodPrefix(s) == SubSeq(s, 1, 5) \o DigitPrefix(SubSeq(s, 6, Len(s)))

---------------------------------------------------------------------------
(* Summary aggregator, resident detail modal *)

\* the body of the forEach of getPaymentSummary for one column: does it reach
\* total++
CountsInSummary(column, startPeriod, currentDate) ==
    LET columnKey == column[1]
    IN  IF ~endsWith(columnKey, JmlSuffix) THEN FALSE
        ELSE IF ~MatchColumn(columnKey, JmlSuffix) THEN FALSE
        ELSE LET paymentKey == ColumnPaymentKey(columnKey, JmlSuffix)
             IN  IF includes(paymentKey, RapatRT) THEN FALSE
                 ELSE IF ~MatchPeriodPrefix(paymentKey) THEN FALSE
                 ELSE shouldCountPayment(PeriodPrefix(paymentKey), startPeriod, currentDate)

RECURSIVE SummaryLoop(_, _, _, _, _)
SummaryLoop(entries, startPeriod, currentDate, paid, total) ==
    IF Len(entries) = 0 THEN [paid |-> paid, unpaid |-> total - paid, total |-> total]
    ELSE LET column == Head(entries)
             counts == CountsInSummary(column, startPeriod, currentDate)
         IN  SummaryLoop(Tail(entries), startPeriod, currentDate,
                         IF counts /\ isValidPayment(column[2]) THEN paid + 1 ELSE paid,
                         IF counts THEN total + 1 ELSE total)

getPaymentSummary(res, currentDate) ==
    SummaryLoop(res.payment, parseStartPeriod(res.startPembayaran), currentDate, 0, 0)

---------------------------------------------------------------------------
(* Summary aggregator, monitoring page *)

monitor_CountsInSummary(column, startPeriod, currentDate) ==
    LET columnKey == column[1]
    IN  IF ~endsWith(columnKey, JmlSuffix) THEN FALSE
        ELSE IF ~MatchColumn(columnKey, JmlSuffix) THEN FALSE
        ELSE LET paymentKey == ColumnPaymentKey(columnKey, JmlSuffix)
             IN  IF includes(paymentKey, RapatRT) THEN FALSE
                 ELSE IF ~MatchPeriodPrefix(paymentKey) THEN FALSE
                 ELSE monitor_shouldCountPayment(
                          PeriodPrefix(paymentKey), startPeriod, currentDate)

RECURSIVE monitor_SummaryLoop(_, _, _, _, _)
monitor_SummaryLoop(entries, startPeriod, currentDate, paid, total) ==
    IF Len(entries) = 0 THEN [paid |-> paid, unpaid |-> total - paid, total |-> total]
    ELSE LET column == Head(entries)
             counts == monitor_CountsInSummary(column, startPeriod, currentDate)
         IN  monitor_SummaryLoop(
                 Tail(entries), startPeriod, currentDate,
                 IF counts /\ monitor_isValidPayment(column[2]) THEN paid + 1 ELSE paid,
                 IF counts THEN total + 1 ELSE total)

monitor_getPaymentSummary(res, currentDate) ==
    monitor_SummaryLoop(
        res.payment, monitor_parseStartPeriod(res.startPembayaran), currentDate, 0, 0)

---------------------------------------------------------------------------
(* Payment history of the resident detail modal *)

Jan == <<"J", "a", "n">>
Feb == <<"F", "e", "b">>
Mar == <<"M", "a", "r">>
Apr == <<"A", "p", "r">>
Mei == <<"M", "e", "i">>
Jun == <<"J", "u", "n">>
Jul == <<"J", "u", "l">>
Ags == <<"A", "g", "s">>
Sep == <<"S", "e", "p">>
Okt == <<"O", "k", "t">>
Nov == <<"N", "o", "v">>
Des == <<"D", "e", "s">>

months == <<Jan, Feb, Mar, Apr, Mei, Jun, Jul, Ags, Sep, Okt, Nov, Des>>

\* months.indexOf(monthName) + 1
MonthIndex(monthName) ==
    IF \E i \in 1..12 : months[i] = monthName
    THEN CHOOSE i \in 1..12 : months[i] = monthName
    ELSE 0

\* months[monthNum - 1] || `Month${monthNum}`
getMonthName(monthNum) ==
    IF monthNum \in 1..12 THEN months[monthNum]
    ELSE <<"M", "o", "n", "t", "h">> \o ToDigits(monthNum)

\* the suffix of a column that matches /^(.+)\s+\((tgl|jml)\)$/, or Null
ColumnField(columnKey) ==
    IF MatchColumn(columnKey, TglSuffix) THEN Some(TglSuffix)
    ELSE IF MatchColumn(columnKey, JmlSuffix) THEN Some(JmlSuffix)
    ELSE Null

\* The mutant of MapSet: the entry of the key is reset by every column of it.
MapSet_Reset(paymentMap, column) ==
    LET field == ColumnField(column[1])
    IN  IF field = Null THEN paymentMap
        ELSE LET paymentKey == ColumnPaymentKey(column[1], field[1])
                 has == \E i \in 1..Len(paymentMap) : paymentMap[i].key = paymentKey
                 map1 == IF has THEN paymentMap
                         ELSE Append(paymentMap,
                                     [key |-> paymentKey, date |-> <<>>, amount |-> <<>>])
             IN  [i \in 1..Len(map1) |->
                    IF map1[i].key # paymentKey THEN map1[i]
                    ELSE IF field[1] = TglSuffix
                         THEN [key |-> paymentKey, date |-> trim(column[2]), amount |-> <<>>]
                         ELSE [key |-> paymentKey, date |-> <<>>, amount |-> trim(column[2])]]

\* paymentMap after one more column: a Map in insertion order, here a sequence
\* of [key, date, amount]
MapSet(paymentMap, column) ==
    LET field == ColumnField(column[1])
    IN  IF field = Null THEN paymentMap
        ELSE LET paymentKey == ColumnPaymentKey(column[1], field[1])
                 has == \E i \in 1..Len(paymentMap) : paymentMap[i].key = paymentKey
                 map1 == IF has THEN paymentMap
                         ELSE Append(paymentMap,
                                     [key |-> paymentKey, date |-> <<>>, amount |-> <<>>])
             IN  [i \in 1..Len(map1) |->
                    IF map1[i].key # paymentKey THEN map1[i]
                    ELSE IF field[1] = TglSuffix
                         THEN [map1[i] EXCEPT !.date = trim(column[2])]
                         ELSE [map1[i] EXCEPT !.amount = trim(column[2])]]

\* first pass of getPaymentHistory
RECURSIVE CollectPayments(_, _)
CollectPayments(entries, paymentMap) ==
    IF Len(entries) = 0 THEN paymentMap
    ELSE CollectPayments(Tail(entries), MapSet(paymentMap, Head(entries)))

\* /^(\d{4})\/(\d+)(?:\s+(.+))?$/ : year, ordinal, and either nothing more or
\* white space and a description
MatchPaymentKey(s) ==
    /\ MatchPeriodPrefix(s)
    /\ LET rest == SubSeq(s, Len(PeriodPrefix(s)) + 1, Len(s))
       IN  Len(rest) = 0 \/ (Len(rest) >= 2 /\ IsSpace(rest[1]))

\* capture 3 of the match above, Null when the group took no part: \s+ takes all
\* the white space it can and leaves .+ at least one character
KeyDescription(s) ==
    LET rest == SubSeq(s, Len(PeriodPrefix(s)) + 1, Len(s))
    IN  IF Len(rest) = 0 THEN Null
        ELSE IF Len(trimStart(rest)) = 0 THEN Some(<<rest[Len(rest)]>>)
        ELSE Some(trimStart(rest))

Space == <<" ">>
SpecialLabel == <<"S", "p", "e", "c", "i", "a", "l">>

\* second pass of getPaymentHistory for one entry of paymentMap
HistoryEntry(data, startPeriod, currentDate) ==
    LET paymentKey == data.key
        year == SubSeq(paymentKey, 1, 4)
        monthNum == DigitPrefix(SubSeq(paymentKey, 6, Len(paymentKey)))
        description == KeyDescription(paymentKey)
        monthNumInt == parseInt(monthNum)
        displayPeriod ==
            IF monthNumInt > 12
            THEN IF description # Null /\ Len(description[1]) > 0
                 THEN description[1] \o Space \o year
                 ELSE SpecialLabel \o Space \o year
            ELSE (IF description # Null /\ Len(description[1]) > 0
                  THEN description[1] ELSE getMonthName(monthNumInt)) \o Space \o year
        key == year \o Slash \o monthNum
    IN  [period |-> displayPeriod,
         date |-> data.date,
         amount |-> data.amount,
         isPaid |-> isValidPayment(data.amount),
         shouldCount |-> shouldCountPayment(key, startPeriod, currentDate),
         isFuture |-> isFuturePayment(key, currentDate)]

RECURSIVE ConvertPayments(_, _, _)
ConvertPayments(paymentMap, startPeriod, currentDate) ==
    IF Len(paymentMap) = 0 THEN <<>>
    ELSE (IF MatchPaymentKey(Head(paymentMap).key)
          THEN <<HistoryEntry(Head(paymentMap), startPeriod, currentDate)>>
          ELSE <<>>)
         \o ConvertPayments(Tail(paymentMap), startPeriod, currentDate)

\* the word characters of s that end at position e
RECURSIVE WordRunBefore(_, _)
WordRunBefore(s, e) ==
    IF e >= 1 /\ IsWord(s[e]) THEN WordRunBefore(s, e - 1) \o <<s[e]>> ELSE <<>>

\* the last position of s before position e that holds no white space
RECURSIVE SkipSpacesBefore(_, _)
SkipSpacesBefore(s, e) ==
    IF e >= 1 /\ IsSpace(s[e]) THEN SkipSpacesBefore(s, e - 1) ELSE e

\* /(\d{4})$/
EndsWithYear(s) == Len(s) >= 4 /\ AllDigits(SubSeq(s, Len(s) - 3, Len(s)))

\* extractYearMonth of the sort of getPaymentHistory
extractYearMonth(period) ==
    IF includes(period, RapatRT)
    THEN IF EndsWithYear(period)
         THEN [year |-> parseInt(SubSeq(period, Len(period) - 3, Len(period))),
               month |-> 13]
         ELSE [year |-> 0, month |-> 0]
    ELSE \* /(\w+)\s+(\d{4})$/
         LET e == SkipSpacesBefore(period, Len(period) - 4)
         IN  IF /\ EndsWithYear(period)
                /\ Len(period) >= 6
                /\ IsSpace(period[Len(period) - 4])
                /\ Len(WordRunBefore(period, e)) > 0
             THEN [year |-> parseInt(SubSeq(period, Len(period) - 3, Len(period))),
                   month |-> MonthIndex(WordRunBefore(period, e))]
             ELSE [year |-> 0, month |-> 0]

\* the comparator of payments.sort: negative when a sorts before b
ComparePayments(a, b) ==
    LET aData == extractYearMonth(a.period)
        bData == extractYearMonth(b.period)
    IN  IF aData.year # bData.year THEN bData.year - aData.year
        ELSE bData.month - aData.month

\* x put into the sorted sequence after every element that does not sort after it
RECURSIVE InsertPayment(_, _)
InsertPayment(sorted, x) ==
    IF Len(sorted) = 0 THEN <<x>>
    ELSE IF ComparePayments(Head(sorted), x) <= 0
         THEN <<Head(sorted)>> \o InsertPayment(Tail(sorted), x)
         ELSE <<x>> \o sorted

\* Array.prototype.sort with that comparator: a stable sort
RECURSIVE SortPayments(_, _)
SortPayments(payments, sorted) ==
    IF Len(payments) = 0 THEN sorted
    ELSE SortPayments(Tail(payments), InsertPayment(sorted, Head(payments)))

getPaymentHistory(res, currentDate) ==
    SortPayments(
        ConvertPayments(CollectPayments(res.payment, <<>>),
                        parseStartPeriod(res.startPembayaran), currentDate),
        <<>>)

Lainnya == <<"L", "a", "i", "n", "n", "y", "a">>

\* /Rapat RT (\d{4})/ : capture 1 of the first match, or Null
RapatYear(period) ==
    LET pat == RapatRT \o Space
        At(i) == /\ i + Len(pat) + 3 <= Len(period)
                 /\ SubSeq(period, i, i + Len(pat) - 1) = pat
                 /\ AllDigits(SubSeq(period, i + Len(pat), i + Len(pat) + 3))
    IN  IF \E i \in 1..Len(period) : At(i)
        THEN LET i == CHOOSE i \in 1..Len(period) :
                          At(i) /\ \A j \in 1..(i - 1) : ~At(j)
             IN  Some(SubSeq(period, i + Len(pat), i + Len(pat) + 3))
        ELSE Null

\* the year a payment is grouped under
GroupYear(payment) ==
    IF includes(payment.period, RapatRT)
    THEN IF RapatYear(payment.period) # Null THEN RapatYear(payment.period)[1]
         ELSE Lainnya
    ELSE IF EndsWithYear(payment.period)
         THEN SubSeq(payment.period, Len(payment.period) - 3, Len(payment.period))
         ELSE Lainnya

\* groupedByYear: a Map in insertion order, here a sequence of [year, payments]
RECURSIVE GroupPayments(_, _)
GroupPayments(payments, groupedByYear) ==
    IF Len(payments) = 0 THEN groupedByYear
    ELSE LET payment == Head(payments)
             year == GroupYear(payment)
             has == \E i \in 1..Len(groupedByYear) : groupedByYear[i].year = year
             map1 == IF has THEN groupedByYear
                     ELSE Append(groupedByYear, [year |-> year, payments |-> <<>>])
         IN  GroupPayments(
                 Tail(payments),
                 [i \in 1..Len(map1) |->
                    IF map1[i].year = year
                    THEN [map1[i] EXCEPT !.payments = Append(@, payment)]
                    ELSE map1[i]])

\* the comparator of sortedYears
CompareYears(a, b) ==
    IF a = Lainnya THEN 1
    ELSE IF b = Lainnya THEN -1
    ELSE parseInt(b) - parseInt(a)

RECURSIVE InsertGroup(_, _)
InsertGroup(sorted, g) ==
    IF Len(sorted) = 0 THEN <<g>>
    ELSE IF CompareYears(Head(sorted).year, g.year) <= 0
         THEN <<Head(sorted)>> \o InsertGroup(Tail(sorted), g)
         ELSE <<g>> \o sorted

RECURSIVE SortGroups(_, _)
SortGroups(groups, sorted) ==
    IF Len(groups) = 0 THEN sorted
    ELSE SortGroups(Tail(groups), InsertGroup(sorted, Head(groups)))

\* yearSummary of one group
YearSummary(yearPayments) ==
    [paid |-> Cardinality({i \in 1..Len(yearPayments) :
                  /\ yearPayments[i].isPaid
                  /\ yearPayments[i].shouldCount
                  /\ ~includes(yearPayments[i].period, RapatRT)}),
     total |-> Cardinality({i \in 1..Len(yearPayments) :
                  /\ yearPayments[i].shouldCount
                  /\ ~includes(yearPayments[i].period, RapatRT)})]

getGroupedPaymentHistory(res, currentDate) ==
    LET groups == SortGroups(GroupPayments(getPaymentHistory(res, currentDate), <<>>), <<>>)
    IN  [i \in 1..Len(groups) |->
            [label |-> groups[i].year,
             payments |-> groups[i].payments,
             yearSummary |-> YearSummary(groups[i].payments)]]

---------------------------------------------------------------------------
(* Name colour, monitoring page *)

Kosong == <<"(", "K", "o", "s", "o", "n", "g", ")">>

DefaultColor == "text-gray-900 dark:text-gray-100"
WarningColor == "text-orange-600 dark:text-orange-400"
DangerColor == "text-rose-600 dark:text-rose-400"

\* The mutant of getResidentNameColor: the warning colour starts at a difference
\* of 5.
getResidentNameColor_LateWarning(res, currentDate) ==
    IF includes(res.name, Kosong) THEN DefaultColor
    ELSE LET summary == monitor_getPaymentSummary(res, currentDate)
         IN  IF summary.total = 0 THEN DefaultColor
             ELSE LET difference == summary.total - summary.paid
                  IN  IF difference <= 4 THEN DefaultColor
                      ELSE IF difference <= 6 THEN WarningColor
                      ELSE DangerColor

getResidentNameColor(res, currentDate) ==
    IF includes(res.name, Kosong) THEN DefaultColor
    ELSE LET summary == monitor_getPaymentSummary(res, currentDate)
         IN  IF summary.total = 0 THEN DefaultColor
             ELSE LET difference == summary.total - summary.paid
                  IN  IF difference <= 3 THEN DefaultColor
                      ELSE IF difference <= 6 THEN WarningColor
                      ELSE DangerColor

---------------------------------------------------------------------------
(* Percentage *)

NaNText == <<"N", "a", "N">>

\* (x).toFixed(0) of x = paid / total * 100 for total > 0: the nearest integer,
\* the larger one of two equally near
ToFixed0(paid, total) == ToDigits((200 * paid + total) \div (2 * total))

\* the Persentase cell of the modal (its earlier revision):
\* ((paid / total) * 100).toFixed(0), and 0 / 0 is NaN
modal_Persentase(summary) ==
    IF summary.total = 0 THEN NaNText
    ELSE ToFixed0(summary.paid, summary.total)

\* the "% terbayar" cell of the list (its earlier revision):
\* total > 0 ? ((paid / total) * 100).toFixed(0) : 0
list_Persentase(summary) ==
    IF summary.total > 0 THEN ToFixed0(summary.paid, summary.total)
    ELSE ToDigits(0)

---------------------------------------------------------------------------
(* Start period, legacy revision of the resident detail modal *)

\* /^(\d{4})\s+(\w+)$/ : the index of the first character of the (\w+) group,
\* or 0 when s does not match
LegacyMonthAt(s) ==
    IF /\ Len(s) >= 6
       /\ AllDigits(SubSeq(s, 1, 4))
       /\ \E k \in 6..Len(s) :
              /\ \A j \in 5..(k - 1) : IsSpace(s[j])
              /\ \A j \in k..Len(s) : IsWord(s[j])
    THEN CHOOSE k \in 6..Len(s) :
              /\ \A j \in 5..(k - 1) : IsSpace(s[j])
              /\ \A j \in k..Len(s) : IsWord(s[j])
    ELSE 0

\* parseStartPeriod of the legacy revision: the month is kept as its name
legacy_parseStartPeriod(sp) ==
    IF Len(sp) = 0 \/ Len(trim(sp)) = 0 THEN Null
    ELSE LET t == trim(sp)
         IN  IF LegacyMonthAt(t) = 0 THEN Null
             ELSE Some([year |-> parseInt(SubSeq(t, 1, 4)),
                        month |-> SubSeq(t, LegacyMonthAt(t), Len(t))])

\* months.indexOf(month) + 1
getMonthIndex(month) ==
    IF \E i \in 1..12 : months[i] = month
    THEN CHOOSE i \in 1..12 : months[i] = month
    ELSE 0

---------------------------------------------------------------------------
(* The page: one spreadsheet row is fetched and parsed, the list row is     *)
(* rendered, and the resident detail modal is opened on it and closed.      *)

\* the period key the spreadsheet writes for year y, ordinal o
KeyOf(y, o) == ToDigits(y) \o Slash \o ToDigits(o)

\* the header the spreadsheet gives the column of period y/o, described desc
ColumnName(y, o, desc, suffix) == KeyOf(y, o) \o Space \o desc \o Space \o suffix

\* a column of the spreadsheet: its header, and what the header was built from
Col(y, o, desc, suffix) ==
    [header |-> ColumnName(y, o, desc, suffix),
     period |-> TRUE, y |-> y, o |-> o, desc |-> desc, suffix |-> suffix]

Iuran == <<"I", "u", "r", "a", "n">>

\* a column that is no payment column
Catatan ==
    [header |-> <<"C", "a", "t", "a", "t", "a", "n">>,
     period |-> FALSE, y |-> 0, o |-> 0, desc |-> <<>>, suffix |-> <<>>]

\* the columns a generated row draws from, in spreadsheet order
ColumnPool ==
    <<Col(2023, 12, Des, JmlSuffix),
      Col(2024, 1, Jan, JmlSuffix),
      Col(2024, 3, Mar, TglSuffix),
      Col(2024, 3, Mar, JmlSuffix),
      Col(2024, 5, Mei, JmlSuffix),
      Col(2024, 7, Jul, JmlSuffix),
      Col(2024, 13, RapatRT, JmlSuffix),
      Col(2024, 14, Iuran, JmlSuffix),
      Col(2025, 2, Feb, JmlSuffix),
      Catatan>>

\* the cell values of a generated row: empty, and an amount
CellValues == {<<>>, <<"5", "0">>}

RowStarts == {<<>>, KeyOf(2024, 3), <<"2", "0", "2", "3", " ", "J", "a", "n">>}

RowDates ==
    {[year |-> 2023, month |-> 12],
     [year |-> 2024, month |-> 6],
     [year |-> 2025, month |-> 3]}

IdentityCells(sp) ==
    <<<<No, <<"1">>>>,
      <<NamaWarga, <<"A", "n", "i">>>>,
      <<Perumahan, <<"R", "J">>>>,
      <<NomorRumah, <<"7">>>>,
      <<StartPembayaran, sp>>>>

\* the elements of a set of numbers in increasing order
RECURSIVE Ascending(_)
Ascending(S) ==
    IF S = {} THEN <<>>
    ELSE LET m == CHOOSE x \in S : \A z \in S : x <= z
         IN  <<m>> \o Ascending(S \ {m})

\* the row with start period sp, the pool columns S and the cell values v
Row(sp, S, v) ==
    LET idx == Ascending(S)
    IN  IdentityCells(sp)
        \o [k \in 1..Len(idx) |-> <<ColumnPool[idx[k]].header, v[idx[k]]>>]

\* the worked example: start 2024/3 and the entries 2024/1 (unpaid), 2024/3
\* (paid), 2024/5 (unpaid), 2024/7 (unpaid)
ExampleRow ==
    IdentityCells(KeyOf(2024, 3))
    \o <<<<ColumnName(2024, 1, Jan, JmlSuffix), <<>>>>,
         <<ColumnName(2024, 3, Mar, JmlSuffix), <<"5", "0">>>>,
         <<ColumnName(2024, 5, Mei, JmlSuffix), <<>>>>,
         <<ColumnName(2024, 7, Jul, JmlSuffix), <<>>>>>>

ExampleDate == [year |-> 2024, month |-> 6]

Rows ==
    {ExampleRow} \cup
    UNION {{Row(sp, S, v) : sp \in RowStarts, v \in [S -> CellValues]} :
           S \in {T \in SUBSET (1..Len(ColumnPool)) : Cardinality(T) <= MaxCols}}

Idle ==
    /\ rawRow = <<>> /\ resident = Null /\ list = Null /\ modal = Null

EvalIdle ==
    /\ periodKey = <<>> /\ startPembayaran = <<>> /\ evaluated = Null

AmountIdle ==
    /\ amount = <<>> /\ isPaid = Null

SheetIdle ==
    /\ sheetQuery = <<>> /\ spreadsheet = Null /\ response = Null

All == <<"a", "l", "l">>

\* the refs of the resident list as they are declared
ListIdle ==
    /\ residents = <<>> /\ parsedResidents = <<>> /\ filteredResidents = <<>>
    /\ searchQuery = <<>> /\ selectedPerumahan = All /\ sortBy = "default"

Init ==
    /\ rawRow \in Rows
    /\ now \in RowDates
    /\ resident = Null /\ list = Null /\ modal = Null
    /\ EvalIdle /\ AmountIdle /\ SheetIdle /\ ListIdle

\* the fetch resolved: parsedResidents is filled from the fetched data
FetchDone ==
    /\ resident = Null
    /\ resident' = Some(parseResidentData(rawRow))
    /\ UNCHANGED <<listVars, sheetVars, rawRow, now, list, modal,
                   periodKey, startPembayaran, evaluated, amount, isPaid>>

\* the list row of the resident is rendered
RenderList ==
    /\ resident # Null /\ list = Null
    /\ LET summary == monitor_getPaymentSummary(resident[1], now)
       IN  list' = Some([summary |-> summary,
                         persentase |-> list_Persentase(summary),
                         nameColor |-> getResidentNameColor(resident[1], now)])
    /\ UNCHANGED <<listVars, sheetVars, rawRow, resident, now, modal,
                   periodKey, startPembayaran, evaluated, amount, isPaid>>

\* the row is clicked: the modal opens on the resident and is rendered
selectResident ==
    /\ list # Null /\ modal = Null
    /\ LET summary == getPaymentSummary(resident[1], now)
       IN  modal' = Some([summary |-> summary,
                          persentase |-> modal_Persentase(summary),
                          history |-> getPaymentHistory(resident[1], now),
                          groups |-> getGroupedPaymentHistory(resident[1], now)])
    /\ UNCHANGED <<listVars, sheetVars, rawRow, resident, now, list,
                   periodKey, startPembayaran, evaluated, amount, isPaid>>

\* the modal is closed
CloseModal ==
    /\ modal # Null
    /\ modal' = Null
    /\ UNCHANGED <<listVars, sheetVars, rawRow, resident, now, list,
                   periodKey, startPembayaran, evaluated, amount, isPaid>>

Next == FetchDone \/ RenderList \/ selectResident \/ CloseModal

Spec == Init /\ [][Next]_vars

---------------------------------------------------------------------------
(* The page on rows whose columns come in any order, paired and unpaired,   *)
(* well formed and malformed.                                               *)

Warga == <<"W", "a", "r", "g", "a">>
Total == <<"T", "o", "t", "a", "l">>

\* a column whose header is no period column: period is FALSE
Malformed(header) ==
    [header |-> header,
     period |-> FALSE, y |-> 0, o |-> 0, desc |-> <<>>, suffix |-> <<>>]

\* the columns an unordered row draws from
HeaderPool ==
    <<Col(2024, 3, Mar, TglSuffix),
      Col(2024, 3, Mar, JmlSuffix),
      Col(2023, 12, Des, TglSuffix),
      Col(2024, 13, RapatRT, JmlSuffix),
      Col(2023, 13, RapatRT \o Space \o Warga, JmlSuffix),
      \* no suffix
      Malformed(KeyOf(2024, 5) \o Space \o Mei),
      \* the bare key is no year/ordinal
      Malformed(Total \o Space \o JmlSuffix),
      Malformed(<<"2", "0", "2", "4", "-", "5">> \o Space \o Mei \o Space \o JmlSuffix),
      Malformed(<<"2", "0", "2", "4", "/">> \o Space \o Jun \o Space \o TglSuffix)>>

\* the cell values of an unordered row: empty, and a value in white space
PaddedValues == {<<>>, <<" ", "5", "0", " ">>}

ColumnStarts == {<<>>, KeyOf(2024, 3)}

\* the sequences of at most MaxCols distinct columns of HeaderPool
ColumnOrders ==
    UNION {{f \in [1..n -> 1..Len(HeaderPool)] :
               \A i, j \in 1..n : i # j => f[i] # f[j]} : n \in 0..MaxCols}

\* the row with start period sp, the columns f of HeaderPool in that order, and
\* the cell values v
ColumnRow(sp, f, v) ==
    IdentityCells(sp) \o [k \in 1..Len(f) |-> <<HeaderPool[f[k]].header, v[k]>>]

InitColumns ==
    /\ \E f \in ColumnOrders, sp \in ColumnStarts :
           \E v \in [1..Len(f) -> PaddedValues] : rawRow = ColumnRow(sp, f, v)
    /\ now = ExampleDate
    /\ resident = Null /\ list = Null /\ modal = Null
    /\ EvalIdle /\ AmountIdle /\ SheetIdle /\ ListIdle

SpecColumns == InitColumns /\ [][Next]_vars

---------------------------------------------------------------------------
(* The page on residents that are behind by any number of months, occupied  *)
(* houses and empty ones.                                                   *)

\* most monthly columns of a generated row (at most 12)
MaxMonths == 9

\* the identity columns of a row
IdentityCellsOf(name, perumahan, nomor, sp) ==
    <<<<No, <<"1">>>>,
      <<NamaWarga, name>>,
      <<Perumahan, perumahan>>,
      <<NomorRumah, nomor>>,
      <<StartPembayaran, sp>>>>

\* the "(jml)" columns of the first total months of 2023, the first paid of
\* them holding an amount
MonthColumns(total, paid) ==
    [m \in 1..total |->
        <<ColumnName(2023, m, months[m], JmlSuffix),
          IF m <= paid THEN <<"5", "0">> ELSE <<>>>>]

ColorNames == {<<"A", "n", "i">>, <<"B", "2">> \o Space \o Kosong}

InitColor ==
    /\ \E name \in ColorNames, total \in 0..MaxMonths :
           \E paid \in 0..total :
               rawRow = IdentityCellsOf(name, <<"R", "J">>, <<"7">>, <<>>)
                        \o MonthColumns(total, paid)
    /\ now = ExampleDate
    /\ resident = Null /\ list = Null /\ modal = Null
    /\ EvalIdle /\ AmountIdle /\ SheetIdle /\ ListIdle

SpecColor == InitColor /\ [][Next]_vars

---------------------------------------------------------------------------
(* The period evaluator on its own: every period key, start period string   *)
(* and current date of the bounded sets, evaluated as getPaymentHistory     *)
(* evaluates one entry.                                                     *)

EvalYears == 2023..2025

Months == 1..12

EvalDates == {[year |-> y, month |-> m] : y \in EvalYears, m \in Months}

MalformedKeys ==
    {<<>>,
     <<"2", "0", "2", "4", "-", "3">>,
     <<"2", "0", "2", "4", "/">>,
     <<"2", "4", "/", "3">>}

EvalKeys ==
    {KeyOf(y, o) : y \in EvalYears, o \in 0..MaxOrdinal} \cup MalformedKeys

\* start period strings that parse to no start period
UnsetStarts ==
    {<<>>,
     <<" ">>,
     <<"2", "0", "2", "4", "/">>,
     <<"2", "0", "2", "4", "-", "3">>,
     <<"2", "0", "2", "3", " ", "J", "a", "n">>,
     <<"2", "0", "2", "4", " ", "M", "a", "r">>}

EvalStarts ==
    {KeyOf(y, m) : y \in EvalYears, m \in Months} \cup UnsetStarts

InitEval ==
    /\ Idle /\ AmountIdle /\ SheetIdle /\ ListIdle
    /\ now \in EvalDates
    /\ periodKey \in EvalKeys
    /\ startPembayaran \in EvalStarts
    /\ evaluated = Null

\* one entry of getPaymentHistory: shouldCount and isFuture of its period key,
\* and what the monitoring page's evaluator gives for the same key
Evaluate ==
    /\ evaluated = Null
    /\ evaluated' =
         Some([countsTowardTotal |->
                   shouldCountPayment(periodKey, parseStartPeriod(startPembayaran), now),
               isFuture |-> isFuturePayment(periodKey, now),
               monitor |->
                   monitor_shouldCountPayment(
                       periodKey, monitor_parseStartPeriod(startPembayaran), now)])
    /\ UNCHANGED <<listVars, sheetVars, rawRow, resident, now, list, modal,
                   periodKey, startPembayaran, amount, isPaid>>

NextEval == Evaluate

SpecEval == InitEval /\ [][NextEval]_vars

---------------------------------------------------------------------------
(* The amount parser on its own: every string of at most MaxLen characters  *)
(* of AmountAlphabet.                                                       *)

AmountAlphabet == {"0", "5", ".", "-", " ", "R"}

AmountStrings == UNION {[1..n -> AmountAlphabet] : n \in 0..MaxLen}

InitAmount ==
    /\ Idle /\ EvalIdle /\ SheetIdle /\ ListIdle
    /\ now \in {[year |-> 2024, month |-> 6]}
    /\ amount \in AmountStrings
    /\ isPaid = Null

\* the paid flag of an entry whose "(jml)" cell holds amount: isPaid in
\* getPaymentHistory (on the trimmed cell), and the test of paid++ in the two
\* getPaymentSummary
CheckAmount ==
    /\ isPaid = Null
    /\ isPaid' = Some([history |-> isValidPayment(trim(amount)),
                       summary |-> isValidPayment(amount),
                       monitor |-> monitor_isValidPayment(amount)])
    /\ UNCHANGED <<listVars, sheetVars, rawRow, resident, now, list, modal,
                   periodKey, startPembayaran, evaluated, amount>>

NextAmount == CheckAmount

SpecAmount == InitAmount /\ [][NextAmount]_vars

---------------------------------------------------------------------------
(* GET /api/gsheet *)

\* most header cells, and most cells of a row, of a generated sheet
MaxHeaders == 2
\* most rows below the header row of a generated sheet
MaxRows == 2

UpperCase ==
    <<"A", "B", "C", "D", "E", "F", "G", "H", "I", "J", "K", "L", "M",
      "N", "O", "P", "Q", "R", "S", "T", "U", "V", "W", "X", "Y", "Z">>
LowerCase ==
    <<"a", "b", "c", "d", "e", "f", "g", "h", "i", "j", "k", "l", "m",
      "n", "o", "p", "q", "r", "s", "t", "u", "v", "w", "x", "y", "z">>

\* String.prototype.toLowerCase
toLowerCase(str) ==
    [i \in 1..Len(str) |->
        IF \E k \in 1..26 : UpperCase[k] = str[i]
        THEN LowerCase[CHOOSE k \in 1..26 : UpperCase[k] = str[i]]
        ELSE str[i]]

\* Array.prototype.join(", ")
RECURSIVE join(_)
join(titles) ==
    IF Len(titles) = 0 THEN <<>>
    ELSE IF Len(titles) = 1 THEN titles[1]
    ELSE titles[1] \o <<",", " ">> \o join(Tail(titles))

\* the sheet the handler falls back to when no sheet is asked for
DefaultGid == 683750936

\* createError({ statusCode, statusMessage }): the message of the error is the
\* statusMessage
createError(statusCode, statusMessage) ==
    [statusCode |-> statusCode, statusMessage |-> statusMessage,
     message |-> statusMessage]

\* `Sheet "${requestedSheet}" not found. Available sheets: ${availableSheets.join(", ")}`
NotFoundMessage(requestedSheet, availableSheets) ==
    <<"S", "h", "e", "e", "t", " ", "\"">> \o requestedSheet
    \o <<"\"", " ", "n", "o", "t", " ", "f", "o", "u", "n", "d", ".", " ", "A", "v", "a", "i", "l", "a", "b", "l", "e", " ", "s", "h", "e", "e", "t", "s", ":", " ">>
    \o join(availableSheets)

TargetNotFound == <<"T", "a", "r", "g", "e", "t", " ", "s", "h", "e", "e", "t", " ", "n", "o", "t", " ", "f", "o", "u", "n", "d">>

NoDataMessage == <<"N", "o", " ", "d", "a", "t", "a", " ", "f", "o", "u", "n", "d", " ", "i", "n", " ", "t", "h", "e", " ", "s", "p", "r", "e", "a", "d", "s", "h", "e", "e", "t">>

\* sheets.find(f) for the set of indices whose sheet passes f: the first such
\* sheet, or Null
FirstOf(sheets, passing) ==
    IF passing = {} THEN Null
    ELSE Some(sheets[CHOOSE i \in passing : \A j \in passing : i <= j])

\* find((sheet) => sheet.properties?.title?.toLowerCase() ===
\* requestedSheet.toLowerCase())
FindByTitle(sheets, requestedSheet) ==
    FirstOf(sheets, {i \in 1..Len(sheets) :
                        /\ Len(sheets[i].title) > 0
                        /\ toLowerCase(sheets[i].title) = toLowerCase(requestedSheet)})

\* find((sheet) => sheet.properties?.sheetId === 683750936)
FindByGid(sheets) ==
    FirstOf(sheets, {i \in 1..Len(sheets) : sheets[i].sheetId = DefaultGid})

\* .map((s) => s.properties?.title).filter(Boolean)
RECURSIVE AvailableSheets(_)
AvailableSheets(sheets) ==
    IF Len(sheets) = 0 THEN <<>>
    ELSE (IF Len(Head(sheets).title) > 0 THEN <<Head(sheets).title>> ELSE <<>>)
         \o AvailableSheets(Tail(sheets))

\* row[index] || ""
CellAt(row, index) == IF index <= Len(row) THEN row[index] ELSE <<>>

\* The mutant of SetKey: a key that is set already keeps its value.
SetKey_KeepFirst(obj, header, value) ==
    [key \in DOMAIN obj \cup {header} |->
        IF key \in DOMAIN obj THEN obj[key] ELSE value]

\* obj[header] = value, obj being a function from the keys set so far to their
\* values
SetKey(obj, header, value) ==
    [key \in DOMAIN obj \cup {header} |-> IF key = header THEN value ELSE obj[key]]

\* headers.forEach((header, index) => { obj[header] = row[index] || "" }), from
\* index on
RECURSIVE RowObject(_, _, _, _)
RowObject(headers, row, index, obj) ==
    IF index > Len(headers) THEN obj
    ELSE RowObject(headers, row, index + 1,
                   SetKey(obj, headers[index], CellAt(row, index)))

\* what a response body holds; a field that is not set is Null
Body(data, total, headers, sheetName, message) ==
    [success |-> TRUE, data |-> data, total |-> total, headers |-> headers,
     sheetName |-> sheetName, message |-> message]

\* the try block of the handler: what it throws, or what it returns
TryBlock(query, sheets) ==
    LET requestedSheet == IF Len(query) = 0 THEN Null ELSE Some(query)
        info == sheets.sheets
        targetSheet ==
            IF requestedSheet # Null THEN FindByTitle(info, requestedSheet[1])
            ELSE IF FindByGid(info) # Null THEN FindByGid(info)
            ELSE IF Len(info) > 0 THEN Some(info[1])
            ELSE Null
    IN  IF sheets.failure # Null
        THEN [thrown |-> Some([message |-> sheets.failure[1]]), returned |-> Null]
        ELSE IF requestedSheet # Null /\ targetSheet = Null
        THEN [thrown |-> Some(createError(404,
                             NotFoundMessage(query, AvailableSheets(info)))),
              returned |-> Null]
        ELSE IF targetSheet = Null \/ Len(targetSheet[1].title) = 0
        THEN [thrown |-> Some(createError(404, TargetNotFound)), returned |-> Null]
        ELSE LET sheetTitle == targetSheet[1].title
                 values == sheets.values
             IN  IF Len(values) = 0
                 THEN [thrown |-> Null,
                       returned |-> Some(Body(<<>>, Null, Null, Null, Some(NoDataMessage)))]
                 ELSE LET headers == values[1]
                          data == [k \in 1..(Len(values) - 1) |->
                                      RowObject(headers, values[k + 1], 1, <<>>)]
                      IN  [thrown |-> Null,
                           returned |-> Some(Body(data, Some(Len(data)), Some(headers),
                                                  Some(sheetTitle), Null))]

\* the handler: whatever the try block throws is thrown again as a 500 carrying
\* the message of what was caught
gsheet_get(query, sheets) ==
    LET try == TryBlock(query, sheets)
    IN  IF try.thrown # Null
        THEN LET error == createError(500, try.thrown[1].message)
             IN  [statusCode |-> error.statusCode,
                  statusMessage |-> error.statusMessage,
                  body |-> Null]
        ELSE [statusCode |-> 200, statusMessage |-> <<>>, body |-> try.returned]

Kas == [title |-> <<"K", "a", "s">>, sheetId |-> 0]
Monitoring == [title |-> <<"M", "o", "n", "i", "t", "o", "r", "i", "n", "g">>, sheetId |-> DefaultGid]
Untitled == [title |-> <<>>, sheetId |-> 7]

\* the sheets of a generated spreadsheet: at most two of the three above
SheetLists ==
    {<<>>} \cup {<<a>> : a \in {Kas, Monitoring, Untitled}}
    \cup {<<a, b>> : a, b \in {Kas, Monitoring, Untitled}}

SheetQueries ==
    {<<>>, <<"k", "a", "s">>, <<"K", "A", "S">>, <<"M", "o", "n", "i", "t", "o", "r", "i", "n", "g">>,
     <<"K", "a">>, <<"I", "u", "r", "a", "n">>}

HeaderNames == {<<"N", "o">>, <<"N", "a", "m", "a">>}

SheetCells == {<<>>, <<"x">>}

HeaderRows == UNION {[1..n -> HeaderNames] : n \in 0..MaxHeaders}

SheetRows == UNION {[1..n -> SheetCells] : n \in 0..MaxHeaders}

ExampleValues ==
    <<<<<<"N", "o">>, <<"N", "a", "m", "a">>>>, <<<<"x">>, <<"x">>>>>>

NetworkFailure == <<"s", "o", "c", "k", "e", "t", " ", "h", "a", "n", "g", " ", "u", "p">>

SheetIdleRest == Idle /\ EvalIdle /\ AmountIdle /\ ListIdle /\ now = ExampleDate

\* a request: either any query on any list of sheets, or the default sheet
\* holding any values, or the Google Sheets API failing
InitSheet ==
    /\ SheetIdleRest
    /\ response = Null
    /\ \/ /\ sheetQuery \in SheetQueries
          /\ \E info \in SheetLists, values \in {<<>>, ExampleValues} :
                 spreadsheet = [sheets |-> info, values |-> values, failure |-> Null]
       \/ /\ sheetQuery = <<>>
          /\ \E headers \in HeaderRows, n \in 0..MaxRows :
                 \E rows \in [1..n -> SheetRows] :
                     spreadsheet = [sheets |-> <<Kas>>,
                                    values |-> <<headers>> \o rows,
                                    failure |-> Null]
       \/ /\ sheetQuery \in SheetQueries
          /\ spreadsheet = [sheets |-> <<Kas>>, values |-> ExampleValues,
                            failure |-> Some(NetworkFailure)]

\* the request is handled
HandleRequest ==
    /\ response = Null
    /\ response' = Some(gsheet_get(sheetQuery, spreadsheet))
    /\ UNCHANGED <<listVars, sheetQuery, spreadsheet, rawRow, resident, now, list, modal,
                   periodKey, startPembayaran, evaluated, amount, isPaid>>

NextSheet == HandleRequest

SpecSheet == InitSheet /\ [][NextSheet]_vars

---------------------------------------------------------------------------
(* The resident list of the monitoring page: search, perumahan filter, sort *)

\* most residents of a generated spreadsheet
MaxResidents == 3

\* parseResidentData on the rows fetched: every row has the columns of the
\* first one, as the rows of one sheet have
parseResidents(rawData) ==
    [i \in 1..Len(rawData) |-> parseResidentData(rawData[i])]

\* resident.name.toLowerCase().includes(query) ||
\* resident.nomor.toLowerCase().includes(query)
MatchesSearch(res, query) ==
    \/ includes(toLowerCase(res.name), query)
    \/ includes(toLowerCase(res.nomor), query)

\* the first filter of filteredResidents
FilterSearch(filtered, searchQueryValue) ==
    IF Len(searchQueryValue) > 0
    THEN SelectSeq(filtered, LAMBDA res : MatchesSearch(res, toLowerCase(searchQueryValue)))
    ELSE filtered

\* the second filter of filteredResidents
FilterPerumahan(filtered, selectedValue) ==
    IF Len(selectedValue) > 0 /\ selectedValue # All
    THEN SelectSeq(filtered, LAMBDA res : res.perumahan = selectedValue)
    ELSE filtered

\* The mutant of compareTunggakan: the lowest unpaid count first.
compareTunggakan_Ascending(a, b, currentDate) ==
    LET aKosong == includes(a.name, Kosong)
        bKosong == includes(b.name, Kosong)
    IN  IF aKosong /\ ~bKosong THEN 1
        ELSE IF ~aKosong /\ bKosong THEN -1
        ELSE IF aKosong /\ bKosong THEN 0
        ELSE monitor_getPaymentSummary(a, currentDate).unpaid
             - monitor_getPaymentSummary(b, currentDate).unpaid

\* the comparator of the "tunggakan" sort
compareTunggakan(a, b, currentDate) ==
    LET aKosong == includes(a.name, Kosong)
        bKosong == includes(b.name, Kosong)
    IN  IF aKosong /\ ~bKosong THEN 1
        ELSE IF ~aKosong /\ bKosong THEN -1
        ELSE IF aKosong /\ bKosong THEN 0
        ELSE monitor_getPaymentSummary(b, currentDate).unpaid
             - monitor_getPaymentSummary(a, currentDate).unpaid

\* The mutant of compareDefault: the original order is kept throughout.
compareDefault_KeepOrder(a, b) == 0

\* the comparator of the default sort
compareDefault(a, b) ==
    LET aKosong == includes(a.name, Kosong)
        bKosong == includes(b.name, Kosong)
    IN  IF aKosong /\ ~bKosong THEN 1
        ELSE IF ~aKosong /\ bKosong THEN -1
        ELSE 0

\* the comparator that sortBy selects
CompareResidents(a, b, sortByValue, currentDate) ==
    IF sortByValue = "tunggakan" THEN compareTunggakan(a, b, currentDate)
    ELSE compareDefault(a, b)

\* x put into the sorted sequence after every element that does not sort after it
RECURSIVE InsertResident(_, _, _, _)
InsertResident(sorted, x, sortByValue, currentDate) ==
    IF Len(sorted) = 0 THEN <<x>>
    ELSE IF CompareResidents(Head(sorted), x, sortByValue, currentDate) <= 0
         THEN <<Head(sorted)>> \o InsertResident(Tail(sorted), x, sortByValue, currentDate)
         ELSE <<x>> \o sorted

\* Array.prototype.sort with that comparator: a stable sort
RECURSIVE SortResidents(_, _, _, _)
SortResidents(filtered, sorted, sortByValue, currentDate) ==
    IF Len(filtered) = 0 THEN sorted
    ELSE SortResidents(Tail(filtered),
                       InsertResident(sorted, Head(filtered), sortByValue, currentDate),
                       sortByValue, currentDate)

\* The mutant of EvaluateFiltered: the sort is done in place, on parsedResidents
\* itself when no filter has made a new array.
EvaluateFiltered_SortInPlace(parsed, searchQueryValue, selectedValue, sortByValue, currentDate) ==
    LET filtered == FilterPerumahan(FilterSearch(parsed, searchQueryValue), selectedValue)
        sorted == SortResidents(filtered, <<>>, sortByValue, currentDate)
        aliased == Len(searchQueryValue) = 0
                   /\ ~(Len(selectedValue) > 0 /\ selectedValue # All)
    IN  [filtered |-> sorted,
         parsedResidents |-> IF aliased THEN sorted ELSE parsed]

\* one evaluation of the computed filteredResidents: its value, and the array
\* parsedResidents after it; filter and [...filtered] make new arrays, so the
\* sort never touches parsedResidents
EvaluateFiltered(parsed, searchQueryValue, selectedValue, sortByValue, currentDate) ==
    LET filtered == FilterPerumahan(FilterSearch(parsed, searchQueryValue), selectedValue)
        sorted == SortResidents(filtered, <<>>, sortByValue, currentDate)
    IN  [filtered |-> sorted, parsedResidents |-> parsed]

\* the values of perumahanOptions
perumahanOptions(parsed) ==
    {All} \cup {parsed[i].perumahan : i \in 1..Len(parsed)}

RJ == <<"R", "J">>
RS == <<"R", "S">>

\* the rows a generated spreadsheet draws from: three months of 2023 each,
\* with 0, 2, 3, 2 and 0 of them unpaid
ResidentPool ==
    <<IdentityCellsOf(<<"A", "n", "i">>, RJ, <<"7">>, <<>>) \o MonthColumns(3, 3),
      IdentityCellsOf(<<"B", "u", "d", "i">>, RJ, <<"1", "2">>, <<>>) \o MonthColumns(3, 1),
      IdentityCellsOf(Kosong, RS, <<"3">>, <<>>) \o MonthColumns(3, 0),
      IdentityCellsOf(<<"C", "i", "c", "i">>, RS, <<"1", "7">>, <<>>) \o MonthColumns(3, 1),
      IdentityCellsOf(<<"B", "2">> \o Space \o Kosong, RJ, <<"2", "0">>, <<>>)
          \o MonthColumns(3, 3)>>

\* the sequences of at most MaxResidents distinct rows of ResidentPool
ResidentOrders ==
    UNION {{f \in [1..n -> 1..Len(ResidentPool)] :
               \A i, j \in 1..n : i # j => f[i] # f[j]} : n \in 0..MaxResidents}

SearchQueries ==
    {<<>>, <<"a", "n">>, <<"A", "N">>, <<"7">>, <<"k", "o", "s", "o", "n", "g">>}

SortValues == {"default", "tunggakan"}

InitList ==
    /\ Idle /\ EvalIdle /\ AmountIdle /\ SheetIdle
    /\ now = ExampleDate
    /\ \E f \in ResidentOrders : residents = [k \in 1..Len(f) |-> ResidentPool[f[k]]]
    /\ parsedResidents = <<>> /\ filteredResidents = <<>>
    /\ searchQuery = <<>> /\ selectedPerumahan = All /\ sortBy = "default"

\* the fetch resolved: parsedResidents is filled, and the list is rendered
FetchResidents ==
    /\ parsedResidents = <<>> /\ residents # <<>>
    /\ LET evaluation == EvaluateFiltered(parseResidents(residents), searchQuery,
                                          selectedPerumahan, sortBy, now)
       IN  /\ parsedResidents' = evaluation.parsedResidents
           /\ filteredResidents' = evaluation.filtered
    /\ UNCHANGED <<residents, searchQuery, selectedPerumahan, sortBy, sheetVars,
                   rawRow, resident, now, list, modal,
                   periodKey, startPembayaran, evaluated, amount, isPaid>>

\* the search box is edited, and the list is rendered again
SetSearchQuery ==
    /\ parsedResidents # <<>>
    /\ \E value \in SearchQueries :
           /\ value # searchQuery
           /\ searchQuery' = value
           /\ LET evaluation == EvaluateFiltered(parsedResidents, value,
                                                 selectedPerumahan, sortBy, now)
              IN  /\ parsedResidents' = evaluation.parsedResidents
                  /\ filteredResidents' = evaluation.filtered
    /\ UNCHANGED <<residents, selectedPerumahan, sortBy, sheetVars,
                   rawRow, resident, now, list, modal,
                   periodKey, startPembayaran, evaluated, amount, isPaid>>

\* an option of the perumahan select is chosen, and the list is rendered again
SetSelectedPerumahan ==
    /\ parsedResidents # <<>>
    /\ \E value \in perumahanOptions(parsedResidents) :
           /\ value # selectedPerumahan
           /\ selectedPerumahan' = value
           /\ LET evaluation == EvaluateFiltered(parsedResidents, searchQuery,
                                                 value, sortBy, now)
              IN  /\ parsedResidents' = evaluation.parsedResidents
                  /\ filteredResidents' = evaluation.filtered
    /\ UNCHANGED <<residents, searchQuery, sortBy, sheetVars,
                   rawRow, resident, now, list, modal,
                   periodKey, startPembayaran, evaluated, amount, isPaid>>

\* an option of the sort select is chosen, and the list is rendered again
SetSortBy ==
    /\ parsedResidents # <<>>
    /\ \E value \in SortValues :
           /\ value # sortBy
           /\ sortBy' = value
           /\ LET evaluation == EvaluateFiltered(parsedResidents, searchQuery,
                                                 selectedPerumahan, value, now)
              IN  /\ parsedResidents' = evaluation.parsedResidents
                  /\ filteredResidents' = evaluation.filtered
    /\ UNCHANGED <<residents, searchQuery, selectedPerumahan, sheetVars,
                   rawRow, resident, now, list, modal,
                   periodKey, startPembayaran, evaluated, amount, isPaid>>

NextList == FetchResidents \/ SetSearchQuery \/ SetSelectedPerumahan \/ SetSortBy

SpecList == InitList /\ [][NextList]_vars

---------------------------------------------------------------------------
(* Claims about the period evaluator *)

\* (y, o) is strictly after the current year/month
IsAfterNow(y, o) == y > now.year \/ (y = now.year /\ o > now.month)

\* C1: for a monthly period key (ordinal <= 12) that is not strictly after the
\* current year/month and a start period string that parses, shouldCountPayment
\* is true exactly when (year, ordinal) >= (start year, start month) in
\* lexicographic order, in the modal and on the monitoring page.
C1_MonthlyCountsFromStart ==
    evaluated # Null =>
        \A y \in EvalYears, o \in 0..12 :
            (periodKey = KeyOf(y, o) /\ ~IsAfterNow(y, o)) =>
                \A sy \in EvalYears, sm \in Months :
                    startPembayaran = KeyOf(sy, sm) =>
                        /\ evaluated[1].countsTowardTotal
                             = (y > sy \/ (y = sy /\ o >= sm))
                        /\ evaluated[1].monitor
                             = (y > sy \/ (y = sy /\ o >= sm))

\* C1 witness: an entry in the exact start month was evaluated and counts.
C1_Witness ==
     /\ evaluated # Null
       /\ periodKey = KeyOf(2024, 3)
       /\ startPembayaran = KeyOf(2024, 3)
       /\ now = [year |-> 2024, month |-> 6]
       /\ evaluated[1].countsTowardTotal
       /\ evaluated[1].monitor

\* C7: for a special period key (ordinal > 12), countsTowardTotal is false when
\* the year is after the current year; otherwise with a start period it is true
\* exactly when year >= start year, whatever the start month, and without one it
\* is true (year <= current year).
C7_SpecialEntries ==
    evaluated # Null =>
        \A y \in EvalYears, o \in 13..MaxOrdinal :
            periodKey = KeyOf(y, o) =>
                /\ y > now.year => ~evaluated[1].countsTowardTotal
                /\ y <= now.year =>
                     /\ \A sy \in EvalYears, sm \in Months :
                            startPembayaran = KeyOf(sy, sm) =>
                                evaluated[1].countsTowardTotal = (y >= sy)
                     /\ startPembayaran \in UnsetStarts =>
                            evaluated[1].countsTowardTotal = (y <= now.year)

\* C7 witness: a special entry of the start year counts although the start
\* month is later than the current month.
C7_Witness ==
     /\ evaluated # Null
       /\ periodKey = KeyOf(2024, 13)
       /\ startPembayaran = KeyOf(2024, 11)
       /\ now = [year |-> 2024, month |-> 6]
       /\ evaluated[1].countsTowardTotal

\* the period key is well formed and counts for a resident with no start period
CountsWithoutStart ==
    \E y \in EvalYears, o \in 0..MaxOrdinal :
        /\ periodKey = KeyOf(y, o)
        /\ IF o > 12 THEN y <= now.year ELSE ~IsAfterNow(y, o)

C14_FutureFlag ==
    evaluated # Null =>
        /\ \A y \in EvalYears, o \in 0..MaxOrdinal :
               periodKey = KeyOf(y, o) =>
                   evaluated[1].isFuture = (o <= 12 /\ IsAfterNow(y, o))
        /\ periodKey \in MalformedKeys => ~evaluated[1].isFuture
        /\ ~(evaluated[1].isFuture /\ evaluated[1].countsTowardTotal)

\* C14 witness: July 2024 was evaluated in June 2024: it is future and does not
\* count.
C14_Witness ==
    /\ evaluated # Null
    /\ periodKey = KeyOf(2024, 7)
    /\ now = [year |-> 2024, month |-> 6]
    /\ evaluated[1].isFuture
    /\ ~evaluated[1].countsTowardTotal

\* C15, as claimed: a start period in the legacy form "YYYY Mon" is evaluated as
\* the canonical start period of the same year and month: every entry has the
\* countsTowardTotal it has under "YYYY/M".
C15_LegacyStartAsCanonical ==
    (evaluated # Null /\ legacy_parseStartPeriod(startPembayaran) # Null) =>
        LET legacy == legacy_parseStartPeriod(startPembayaran)[1]
            canonical == KeyOf(legacy.year, getMonthIndex(legacy.month))
        IN  getMonthIndex(legacy.month) > 0 =>
                /\ evaluated[1].countsTowardTotal
                     = shouldCountPayment(periodKey, parseStartPeriod(canonical), now)
                /\ evaluated[1].monitor
                     = monitor_shouldCountPayment(
                           periodKey, monitor_parseStartPeriod(canonical), now)

---------------------------------------------------------------------------
(* Claims about the amount parser *)

NonZeroDigits == {"1", "2", "3", "4", "5", "6", "7", "8", "9"}

\* s, a string of digits, "." and "-", starts with a decimal literal of positive
\* value: a non-zero digit preceded only by digits and at most one "."
ParsesPositive(s) ==
    \E k \in 1..Len(s) :
        /\ s[k] \in NonZeroDigits
        /\ \A j \in 1..(k - 1) : IsDigit(s[j]) \/ s[j] = "."
        /\ Cardinality({j \in 1..(k - 1) : s[j] = "."}) <= 1

\* the amount with every character other than digits, "." and "-" removed
Stripped(s) ==
    SelectSeq(s, LAMBDA c : c \in {"0", "."} \cup NonZeroDigits \cup {"-"})

\* C10: the paid flag of an entry is true exactly when its amount, stripped of
\* every character other than digits, "." and "-", parses to a positive number;
\* empty, blank, "0", "-", zero, negative and non-numeric amounts are unpaid.
C10_PaidFlag ==
    isPaid # Null =>
        /\ isPaid[1].history = ParsesPositive(Stripped(amount))
        /\ isPaid[1].summary = ParsesPositive(Stripped(amount))
        /\ isPaid[1].monitor = ParsesPositive(Stripped(amount))
        /\ ( \/ \A i \in 1..Len(amount) : amount[i] = " "
             \/ amount \in {<<"0">>, <<"-">>}
             \/ \A i \in 1..Len(amount) : amount[i] \notin NonZeroDigits
             \/ (Len(Stripped(amount)) > 0 /\ Stripped(amount)[1] = "-") )
           => ~isPaid[1].history /\ ~isPaid[1].summary /\ ~isPaid[1].monitor

\* C10 witness: an amount with a currency prefix was parsed and is paid.
C10_Witness ==
     /\ isPaid # Null
       /\ amount = <<"R", "5", "0">>
       /\ isPaid[1].history /\ isPaid[1].summary /\ isPaid[1].monitor

---------------------------------------------------------------------------
(* Claims about the summary aggregator *)

\* what the header of a payment column of a generated row was built from
\* every column a generated row may hold
KnownColumns == ColumnPool \o HeaderPool

Truth(header) ==
    KnownColumns[CHOOSE k \in 1..Len(KnownColumns) : KnownColumns[k].header = header]

\* the resident without the i-th payment column
Without(res, i) ==
    [res EXCEPT !.payment = SubSeq(@, 1, i - 1) \o SubSeq(@, i + 1, Len(@))]

\* (y, o) is strictly before the resident's start period
IsBeforeStart(res, y, o) ==
    \E sy \in EvalYears, sm \in Months :
        /\ res.startPembayaran = KeyOf(sy, sm)
        /\ (y < sy \/ (y = sy /\ o < sm))

\* the i-th payment column is the "(jml)" column of a monthly period
IsMonthlyJml(res, i) ==
    LET c == Truth(res.payment[i][1])
    IN  c.period /\ c.o <= 12 /\ c.suffix = JmlSuffix

\* the entries of every year group of the rendered modal
RECURSIVE AllPayments(_)
AllPayments(groups) ==
    IF Len(groups) = 0 THEN <<>>
    ELSE Head(groups).payments \o AllPayments(Tail(groups))

\* the display label of the entry of a column
PeriodLabel(c) == c.desc \o Space \o ToDigits(c.y)

\* C2: a monthly entry dated strictly before the resident's start period adds
\* nothing to total or paid, whatever its amount: the summary of the modal and
\* of the monitoring page is the summary of the resident without that column.
C2_BeforeStartNeverCounts ==
    modal # Null =>
        \A i \in 1..Len(resident[1].payment) :
            ( /\ IsMonthlyJml(resident[1], i)
              /\ IsBeforeStart(resident[1], Truth(resident[1].payment[i][1]).y,
                               Truth(resident[1].payment[i][1]).o) )
            => /\ modal[1].summary = getPaymentSummary(Without(resident[1], i), now)
               /\ list[1].summary
                    = monitor_getPaymentSummary(Without(resident[1], i), now)

\* C2 witness: a resident starting in 2024/3 whose only column, January 2024,
\* holds an amount, and whose rendered summary counts nothing.
C2_Witness ==
    /\ modal # Null
    /\ resident[1].startPembayaran = KeyOf(2024, 3)
    /\ resident[1].payment = <<<<ColumnName(2024, 1, Jan, JmlSuffix), <<"5", "0">>>>>>
    /\ now = ExampleDate
    /\ modal[1].summary = [paid |-> 0, unpaid |-> 0, total |-> 0]
    /\ list[1].summary = [paid |-> 0, unpaid |-> 0, total |-> 0]

\* C3: a monthly period strictly after the current year/month never counts,
\* whatever the start period and the amount: its entry has shouldCount false,
\* and the summaries are those of the resident without its column.
C3_FutureNeverCounts ==
    modal # Null =>
        \A i \in 1..Len(resident[1].payment) :
            LET c == Truth(resident[1].payment[i][1])
            IN  (c.period /\ c.o <= 12 /\ IsAfterNow(c.y, c.o)) =>
                    /\ \E k \in 1..Len(AllPayments(modal[1].groups)) :
                           AllPayments(modal[1].groups)[k].period = PeriodLabel(c)
                    /\ \A k \in 1..Len(AllPayments(modal[1].groups)) :
                           AllPayments(modal[1].groups)[k].period = PeriodLabel(c)
                               => ~AllPayments(modal[1].groups)[k].shouldCount
                    /\ modal[1].summary = getPaymentSummary(Without(resident[1], i), now)
                    /\ list[1].summary
                         = monitor_getPaymentSummary(Without(resident[1], i), now)

\* C3 witness: July 2024 holds an amount, the date is June 2024, no start period
\* is set, and the rendered summary counts only the other column.
C3_Witness ==
    /\ modal # Null
    /\ now = ExampleDate
    /\ resident[1].startPembayaran = <<>>
    /\ resident[1].payment = <<<<ColumnName(2024, 5, Mei, JmlSuffix), <<"5", "0">>>>,
                               <<ColumnName(2024, 7, Jul, JmlSuffix), <<"5", "0">>>>>>
    /\ modal[1].summary = [paid |-> 1, unpaid |-> 0, total |-> 1]

\* C4, as claimed: for a resident with no start period, total is the number of
\* monthly "(jml)" columns that are not strictly after the current year/month.
C4_AllMonthlyCountWithoutStart ==
    (modal # Null /\ parseStartPeriod(resident[1].startPembayaran) = Null) =>
        modal[1].summary.total =
            Cardinality({i \in 1..Len(resident[1].payment) :
                /\ IsMonthlyJml(resident[1], i)
                /\ ~IsAfterNow(Truth(resident[1].payment[i][1]).y,
                               Truth(resident[1].payment[i][1]).o)})

\* the yearSummary of the group labelled label, nothing counted if there is none
YearSummaryOf(groups, label) ==
    IF \E g \in 1..Len(groups) : groups[g].label = label
    THEN groups[CHOOSE g \in 1..Len(groups) : groups[g].label = label].yearSummary
    ELSE [paid |-> 0, total |-> 0]

\* C5, as claimed: a column whose period key has ordinal > 12 changes neither
\* the summary nor any yearSummary, and the history has an entry for it.
C5_SpecialNeverCounted ==
    modal # Null =>
        \A i \in 1..Len(resident[1].payment) :
            LET c == Truth(resident[1].payment[i][1])
                without == getGroupedPaymentHistory(Without(resident[1], i), now)
            IN  (c.period /\ c.o > 12) =>
                    /\ modal[1].summary = getPaymentSummary(Without(resident[1], i), now)
                    /\ YearSummaryOf(modal[1].groups, ToDigits(c.y))
                         = YearSummaryOf(without, ToDigits(c.y))
                    /\ \E k \in 1..Len(AllPayments(modal[1].groups)) :
                           AllPayments(modal[1].groups)[k].period = PeriodLabel(c)

\* the history entry labelled label
EntryOf(groups, label) ==
    AllPayments(groups)[CHOOSE k \in 1..Len(AllPayments(groups)) :
                            AllPayments(groups)[k].period = label]

\* the worked example has been rendered
ExampleRendered ==
    /\ modal # Null
    /\ rawRow = ExampleRow
    /\ now = ExampleDate

\* C6, as claimed: the worked example gives total = 3, paid = 1, unpaid = 2.
C6_ExampleAsStated ==
    ExampleRendered => modal[1].summary = [paid |-> 1, unpaid |-> 2, total |-> 3]

\* C6, amended: the worked example gives total = 2, paid = 1, unpaid = 1 in the
\* modal and on the monitoring page: January 2024 is before the start period
\* and July 2024 is in the future, and neither entry counts.
C6_Example ==
    ExampleRendered =>
        /\ modal[1].summary = [paid |-> 1, unpaid |-> 1, total |-> 2]
        /\ list[1].summary = [paid |-> 1, unpaid |-> 1, total |-> 2]
        /\ ~EntryOf(modal[1].groups, PeriodLabel(Col(2024, 7, Jul, JmlSuffix))).shouldCount
        /\ EntryOf(modal[1].groups, PeriodLabel(Col(2024, 7, Jul, JmlSuffix))).isFuture
        /\ ~EntryOf(modal[1].groups, PeriodLabel(Col(2024, 1, Jan, JmlSuffix))).shouldCount

\* C6 witness: the worked example has been rendered, with four entries.
C6_Witness ==
    /\ ExampleRendered
    /\ Len(AllPayments(modal[1].groups)) = 4

\* paid / total * 100 rounded to zero decimals, as text; 0 when total is 0
RoundedPercentage(summary) ==
    IF summary.total = 0 THEN <<"0">>
    ELSE ToDigits(CHOOSE n \in 0..100 :
             /\ 2 * n * summary.total - summary.total <= 200 * summary.paid
             /\ 200 * summary.paid < 2 * n * summary.total + summary.total)

\* C8, as claimed: every view that renders a percentage renders paid/total*100
\* rounded to zero decimals, and 0 when total is 0.
C8_Percentage ==
    /\ list # Null => list[1].persentase = RoundedPercentage(list[1].summary)
    /\ modal # Null => modal[1].persentase = RoundedPercentage(modal[1].summary)

\* C9, as claimed: 0 <= paid <= total, unpaid = total - paid, and total is the
\* number of non-special entries that count toward the total.
C9_SummaryInvariant ==
    modal # Null =>
        \A sm \in {modal[1].summary, list[1].summary} :
            /\ sm.paid \in Nat /\ sm.total \in Nat /\ sm.unpaid \in Nat
            /\ sm.paid <= sm.total
            /\ sm.unpaid = sm.total - sm.paid
            /\ sm.total =
                 Cardinality({i \in 1..Len(resident[1].payment) :
                     /\ IsMonthlyJml(resident[1], i)
                     /\ shouldCountPayment(
                            KeyOf(Truth(resident[1].payment[i][1]).y,
                                  Truth(resident[1].payment[i][1]).o),
                            parseStartPeriod(resident[1].startPembayaran), now)})

---------------------------------------------------------------------------
(* Claims about the column parser *)

\* the value of the column named header in the resident's payment mapping, ""
\* when there is no such column
PaymentCell(res, header) ==
    IF \E i \in 1..Len(res.payment) : res.payment[i][1] = header
    THEN res.payment[CHOOSE i \in 1..Len(res.payment) : res.payment[i][1] = header][2]
    ELSE <<>>

\* the positions of the history entries labelled label
EntriesOf(history, label) == {k \in 1..Len(history) : history[k].period = label}

C13_ColumnPairing ==
    modal # Null =>
        /\ \A i \in 1..Len(resident[1].payment) :
               LET c == Truth(resident[1].payment[i][1])
               IN  c.period =>
                       /\ Cardinality(EntriesOf(modal[1].history, PeriodLabel(c))) = 1
                       /\ \A k \in EntriesOf(modal[1].history, PeriodLabel(c)) :
                              /\ modal[1].history[k].date
                                   = trim(PaymentCell(resident[1],
                                          ColumnName(c.y, c.o, c.desc, TglSuffix)))
                              /\ modal[1].history[k].amount
                                   = trim(PaymentCell(resident[1],
                                          ColumnName(c.y, c.o, c.desc, JmlSuffix)))
        /\ Len(modal[1].history)
             = Cardinality({PeriodLabel(Truth(resident[1].payment[i][1])) :
                   i \in {j \in 1..Len(resident[1].payment) :
                             Truth(resident[1].payment[j][1]).period}})

\* C13 witness: the "(jml)" column of March 2024 comes before its "(tgl)"
\* column, and the history has the one entry with both values trimmed.
C13_Witness ==
    /\ modal # Null
    /\ resident[1].payment
         = << <<ColumnName(2024, 3, Mar, JmlSuffix), <<" ", "5", "0", " ">>>>,
              <<ColumnName(2024, 3, Mar, TglSuffix), <<" ", "5", "0", " ">>>> >>
    /\ Len(modal[1].history) = 1
    /\ modal[1].history[1].date = <<"5", "0">>
    /\ modal[1].history[1].amount = <<"5", "0">>

---------------------------------------------------------------------------
(* Claims about the payment history *)

\* the column of the resident that the history entry labelled label comes from
ColumnOf(res, label) ==
    Truth(res.payment[CHOOSE i \in 1..Len(res.payment) :
                          /\ Truth(res.payment[i][1]).period
                          /\ PeriodLabel(Truth(res.payment[i][1])) = label][1])

\* C18, as claimed: the history is sorted most recent first: an entry of a later
\* year precedes every entry of an earlier year, and within one year an entry
\* of a higher ordinal precedes every entry of a lower ordinal.
C18_HistorySorted ==
    modal # Null =>
        \A a, b \in 1..Len(modal[1].history) :
            LET ca == ColumnOf(resident[1], modal[1].history[a].period)
                cb == ColumnOf(resident[1], modal[1].history[b].period)
            IN  (ca.y > cb.y \/ (ca.y = cb.y /\ ca.o > cb.o)) => a < b

\* the positions <<group, entry>> of the rendered year groups
GroupPositions(groups) ==
    {<<g, m>> : g \in 1..Len(groups), m \in 1..MaxCols + 1} \cap
    UNION {{<<g, m>> : m \in 1..Len(groups[g].payments)} : g \in 1..Len(groups)}

\* C19, as claimed: the year groups partition the history: every entry is in
\* exactly one group, the label of the group is the year of the entry, the
\* groups come most recent year first with "Lainnya" last, and the entries of a
\* group keep their history order.
C19_GroupsPartition ==
    modal # Null =>
        LET groups == modal[1].groups
            history == modal[1].history
        IN  /\ Len(AllPayments(groups)) = Len(history)
            /\ \A k \in 1..Len(history) :
                   \E g \in 1..Len(groups) :
                       /\ \E m \in 1..Len(groups[g].payments) :
                              groups[g].payments[m] = history[k]
                       /\ \A h \in 1..Len(groups) :
                              (\E m \in 1..Len(groups[h].payments) :
                                   groups[h].payments[m] = history[k]) => h = g
                       /\ groups[g].label
                            = ToDigits(ColumnOf(resident[1], history[k].period).y)
            /\ \A g, h \in 1..Len(groups) :
                   g < h => /\ groups[g].label # Lainnya
                            /\ \/ groups[h].label = Lainnya
                               \/ parseInt(groups[g].label) > parseInt(groups[h].label)
            /\ \A g \in 1..Len(groups) :
                   \A m, n \in 1..Len(groups[g].payments) :
                       m < n =>
                           \E a, b \in 1..Len(history) :
                               /\ a < b
                               /\ history[a] = groups[g].payments[m]
                               /\ history[b] = groups[g].payments[n]

\* the sum of yearSummary.total, and of yearSummary.paid, over the year groups
RECURSIVE SumTotal(_)
SumTotal(groups) ==
    IF Len(groups) = 0 THEN 0
    ELSE Head(groups).yearSummary.total + SumTotal(Tail(groups))

RECURSIVE SumPaid(_)
SumPaid(groups) ==
    IF Len(groups) = 0 THEN 0
    ELSE Head(groups).yearSummary.paid + SumPaid(Tail(groups))

\* C20, as claimed: the yearSummary of the year groups add up to the summary of
\* the resident, total and paid.
C20_BadgesAgreeWithSummary ==
    modal # Null =>
        /\ SumTotal(modal[1].groups) = modal[1].summary.total
        /\ SumPaid(modal[1].groups) = modal[1].summary.paid

---------------------------------------------------------------------------
(* Claims about GET /api/gsheet *)

\* the request names a sheet, the Google Sheets API answers, and no sheet has
\* the title asked for, whatever the case of the letters
UnknownSheetRequested ==
    /\ Len(sheetQuery) > 0
    /\ spreadsheet.failure = Null
    /\ \A i \in 1..Len(spreadsheet.sheets) :
           toLowerCase(spreadsheet.sheets[i].title) # toLowerCase(sheetQuery)

\* C16, as claimed: a request for a sheet name that matches no sheet title is
\* answered with HTTP 404 and a message that lists the available sheet titles.
C16_UnknownSheetIs404 ==
    (response # Null /\ UnknownSheetRequested) =>
        /\ response[1].statusCode = 404
        /\ \A i \in 1..Len(spreadsheet.sheets) :
               includes(response[1].statusMessage, spreadsheet.sheets[i].title)

\* the request was answered with the rows of a sheet that has a header row
RowsReturned ==
    /\ response # Null
    /\ response[1].body # Null
    /\ Len(spreadsheet.values) > 0

\* the last index of headers that holds the name of index i
LastIndexOf(headers, i) ==
    CHOOSE j \in 1..Len(headers) :
        /\ headers[j] = headers[i]
        /\ \A k \in (j + 1)..Len(headers) : headers[k] # headers[i]

\* the rows are in sheet order, one object per row below the header row, and
\* total counts them
RowsInOrder ==
    LET values == spreadsheet.values
        body == response[1].body[1]
    IN  /\ Len(body.data) = Len(values) - 1
        /\ body.total = Some(Len(values) - 1)
        /\ body.headers = Some(values[1])
        /\ \A k \in 1..Len(body.data) :
               DOMAIN body.data[k] = {values[1][i] : i \in 1..Len(values[1])}

\* C17, as claimed: the first row holds the headers; every later row becomes an
\* object whose keys are exactly the header names and whose value for the
\* header at index i is the cell i of the row, "" when missing or empty; data
\* keeps the row order and total is the number of rows below the header row.
C17_RowsAsStated ==
    RowsReturned =>
        /\ RowsInOrder
        /\ \A k \in 1..Len(response[1].body[1].data) :
               \A i \in 1..Len(spreadsheet.values[1]) :
                   response[1].body[1].data[k][spreadsheet.values[1][i]]
                     = (IF i <= Len(spreadsheet.values[k + 1])
                        THEN spreadsheet.values[k + 1][i] ELSE <<>>)

\* C17, amended: as claimed, but the value for a header name is the cell of
\* the row at the last index that holds that name (cell i for the header at
\* index i when the header names are distinct).
C17_RowConversion ==
    RowsReturned =>
        /\ RowsInOrder
        /\ \A k \in 1..Len(response[1].body[1].data) :
               \A i \in 1..Len(spreadsheet.values[1]) :
                   LET j == LastIndexOf(spreadsheet.values[1], i)
                   IN  response[1].body[1].data[k][spreadsheet.values[1][i]]
                         = (IF j <= Len(spreadsheet.values[k + 1])
                            THEN spreadsheet.values[k + 1][j] ELSE <<>>)

\* C17 witness: two columns are headed "No", the row holds "" and "x", and the
\* one object returned has "x" under "No".
C17_Witness ==
    /\ RowsReturned
    /\ spreadsheet.values = <<<<<<"N", "o">>, <<"N", "o">>>>, <<<<>>, <<"x">>>>>>
    /\ response[1].body[1].total = Some(1)
    /\ response[1].body[1].data[1][<<"N", "o">>] = <<"x">>

---------------------------------------------------------------------------
(* Claims about the monitoring page *)

\* C21: the list and the modal agree: for the same resident and current date
\* getPaymentSummary of the monitoring page and getPaymentSummary of the
\* resident detail modal return the same paid, unpaid and total.
C21_ListAndModalAgree ==
    modal # Null =>
        /\ list[1].summary.paid = modal[1].summary.paid
        /\ list[1].summary.unpaid = modal[1].summary.unpaid
        /\ list[1].summary.total = modal[1].summary.total

\* C21 witness: the worked example was rendered in the list and in the modal,
\* and both count one paid entry of two.
C21_Witness ==
    /\ ExampleRendered
    /\ list[1].summary = [paid |-> 1, unpaid |-> 1, total |-> 2]
    /\ modal[1].summary = [paid |-> 1, unpaid |-> 1, total |-> 2]

\* C25: the colour of a resident's name depends only on total - paid of the
\* resident's summary: the default colour when the name contains "(Kosong)",
\* when total is 0 or when total - paid <= 3, the warning colour when
\* 4 <= total - paid <= 6, the danger colour when total - paid >= 7.
C25_NameColor ==
    list # Null =>
        LET difference == list[1].summary.total - list[1].summary.paid
        IN  list[1].nameColor =
                (IF \/ includes(resident[1].name, Kosong)
                    \/ list[1].summary.total = 0
                    \/ difference <= 3
                 THEN "text-gray-900 dark:text-gray-100"
                 ELSE IF difference <= 6
                 THEN "text-orange-600 dark:text-orange-400"
                 ELSE "text-rose-600 dark:text-rose-400")

\* C25 witness: a resident with four unpaid months of five is rendered in the
\* warning colour.
C25_Witness ==
    /\ list # Null
    /\ resident[1].name = <<"A", "n", "i">>
    /\ list[1].summary = [paid |-> 1, unpaid |-> 4, total |-> 5]
    /\ list[1].nameColor = "text-orange-600 dark:text-orange-400"

---------------------------------------------------------------------------
(* Claims about the resident list *)

\* the resident is a vacant house
IsKosong(res) == includes(res.name, Kosong)

\* where a resident shown stands in parsedResidents
PositionIn(parsed, res) == CHOOSE i \in 1..Len(parsed) : parsed[i] = res

\* text contains the query somewhere, letter case set aside
ContainsIgnoringCase(text, query) ==
    \E i \in 0..(Len(text) - Len(query)) :
        \A k \in 1..Len(query) :
            toLowerCase(<<text[i + k]>>) = toLowerCase(<<query[k]>>)

\* the resident passes the search box and the perumahan select as they stand
MatchesFilters(res) ==
    /\ \/ ContainsIgnoringCase(res.name, searchQuery)
       \/ ContainsIgnoringCase(res.nomor, searchQuery)
    /\ selectedPerumahan = All \/ res.perumahan = selectedPerumahan

\* how often a resident is shown
TimesShown(res) ==
    Cardinality({k \in 1..Len(filteredResidents) : filteredResidents[k] = res})

\* C22: in filteredResidents no "(Kosong)" resident stands before a resident
\* that is not one, whatever the sort, the search and the perumahan selected;
\* and under the default sort two residents of the same group stand in the
\* order they have in parsedResidents.
C22_KosongLast ==
    \A a, b \in 1..Len(filteredResidents) :
        a < b =>
            /\ ~(IsKosong(filteredResidents[a]) /\ ~IsKosong(filteredResidents[b]))
            /\ (sortBy = "default"
                /\ IsKosong(filteredResidents[a]) = IsKosong(filteredResidents[b]))
               => PositionIn(parsedResidents, filteredResidents[a])
                  < PositionIn(parsedResidents, filteredResidents[b])

\* a vacant house fetched first is shown last, the two others in their order
C22_Witness ==
    /\ sortBy = "default"
    /\ Len(parsedResidents) = 3
    /\ IsKosong(parsedResidents[1])
    /\ ~IsKosong(parsedResidents[2]) /\ ~IsKosong(parsedResidents[3])
    /\ filteredResidents = <<parsedResidents[2], parsedResidents[3], parsedResidents[1]>>

\* C23: under the "tunggakan" sort, of two residents shown that are not
\* "(Kosong)" the earlier one has at least as many unpaid months as the later.
C23_UnpaidDescending ==
    sortBy = "tunggakan" =>
        \A a, b \in 1..Len(filteredResidents) :
            (a < b /\ ~IsKosong(filteredResidents[a]) /\ ~IsKosong(filteredResidents[b]))
            => monitor_getPaymentSummary(filteredResidents[a], now).unpaid
               >= monitor_getPaymentSummary(filteredResidents[b], now).unpaid

\* the resident with more unpaid months was fetched second and is shown first
C23_Witness ==
    /\ sortBy = "tunggakan"
    /\ Len(parsedResidents) = 3
    /\ IsKosong(parsedResidents[3])
    /\ monitor_getPaymentSummary(parsedResidents[1], now).unpaid
       < monitor_getPaymentSummary(parsedResidents[2], now).unpaid
    /\ filteredResidents = <<parsedResidents[2], parsedResidents[1], parsedResidents[3]>>

\* C24: once fetched, parsedResidents stays the parse of the rows fetched, in
\* their order, whatever is typed or selected; and filteredResidents holds
\* every resident of parsedResidents that passes the search and the perumahan
\* selected once, and nothing else.
C24_FilterAndSortReadOnly ==
    parsedResidents # <<>> =>
        /\ parsedResidents = parseResidents(residents)
        /\ \A i \in 1..Len(parsedResidents) :
               TimesShown(parsedResidents[i])
               = IF MatchesFilters(parsedResidents[i]) THEN 1 ELSE 0
        /\ \A k \in 1..Len(filteredResidents) :
               \E i \in 1..Len(parsedResidents) :
                   filteredResidents[k] = parsedResidents[i]

\* "AN" typed, a perumahan selected and the sort changed: Ani alone is shown
C24_Witness ==
    /\ searchQuery = <<"A", "N">>
    /\ selectedPerumahan = RJ
    /\ sortBy = "tunggakan"
    /\ Len(parsedResidents) = 3
    /\ parsedResidents[2].name = <<"A", "n", "i">>
    /\ filteredResidents = <<parsedResidents[2]>>

====
